---- MODULE Spec2Model ----
(***************************************************************************)
(* Model of billing.py: the bill ledger with its undo/redo history, the    *)
(* numbering service, the product catalog store and its CSV adapters.      *)
(*                                                                         *)
(* Money and percentages are Python floats in the source.  They are kept   *)
(* here as integers counting hundredths (12.50 is 1250), and round(x, 2)   *)
(* is rounding of the exact quotient to the nearest hundredth, ties to     *)
(* even.  Text is a sequence of one-character strings wherever the code    *)
(* formats or parses it; form fields that the code only parses are tokens  *)
(* with a parse table.                                                     *)
(***************************************************************************)
EXTENDS Integers, Sequences, FiniteSets, TLC

VARIABLES
    \* ---- BillingApp (the ledger) ----
    items_in_bill,   \* self.items_in_bill
    sub_total,       \* self.sub_total
    total,           \* self.total
    gst_label,       \* gst_amt as last shown by update_totals
    due_label,       \* due as last shown by update_due
    gst_percent,     \* self.gst_percent (DoubleVar)
    paid_amount,     \* self.paid_amount (DoubleVar)
    cust_name,       \* self.cust_name entry text
    cust_phone,      \* self.cust_phone entry text
    selection,       \* self.tree.selection(): <<>> or <<row index>>
    stack,           \* self._ur_stack.stack
    index,           \* self._ur_stack.index
    last,            \* the handler that ran last and what it saw on entry
    edits,           \* how often the Paid, GST and customer entries were changed
    \* ---- numbering service, one caller at a time ----
    counter_file,    \* BILL_COUNTER_FILE: <<>> when absent, else <<its text>>
    pdf_folder,      \* the names of the files in PDF_FOLDER
    pending_pdf,     \* <<name>> returned by get_next_pdf_filename and not yet written
    bill_log,        \* what get_next_bill_no returned, in order, and who else wrote the file
    pdf_log,         \* what get_next_pdf_filename returned, in order
    \* ---- numbering service, two instances of the program at once ----
    pc,              \* where each instance is in get_next_bill_no / print_and_save_pdf
    last_no,         \* the local last_no of each instance
    pdf_file,        \* the local pdf_file of each instance
    \* ---- catalog store ----
    products_table,  \* the rows of table products of DB_FILE, in rowid order
    catalog_last,    \* <<p>> when the last call on the store was save_product_to_db(p)
    csv_file,        \* <<rows>> of the file written by export_products_csv, <<>> if none
    exported,        \* <<catalog>> that was handed to export_products_csv
    second_store,    \* <<rows>> of table products of an empty store after the import
    products,        \* self.products: the in-memory lookup of the application
    ui_last,         \* the catalog operation of the application that ran last
    \* ---- print_bill_to_printer (the output dispatcher) ----
    dispatch_pc,     \* where print_bill_to_printer is
    bill_preview,    \* the lines of self.bill_preview
    win32print,      \* whether the module win32print was imported
    printer_var,     \* self.printer_var: <<>> for "<No printers found>", else <<name>>
    tmp_pdf,         \* the file at tmp_pdf: "none", "partial" or "complete"
    attempts,        \* the delivery attempts of this run, in order
    messages,        \* the message boxes of this run, in order
    dispatches,      \* how many runs were started
    \* ---- bill archive ----
    bills_table,     \* the rows of table bills of DB_FILE
    finalize_last,   \* <<>> or <<what the last print_and_save_pdf did>>
    \* ---- the item dicts as objects (who holds a reference to which dict) ----
    dicts,           \* the dict objects made so far; a reference is a position here
    item_ids,        \* the references self.items_in_bill holds, in order
    captured,        \* per entry of the stack: what _snapshot() was when it was pushed
    \* ---- the pages print_bill_to_printer draws ----
    lines,           \* text.splitlines() of the preview: the length of each line
    canvas           \* the calls made on the canvas c, in order

ledgerVars == <<items_in_bill, sub_total, total, gst_label, due_label,
                gst_percent, paid_amount, cust_name, cust_phone, selection,
                stack, index, last, edits>>

numberingVars == <<counter_file, pdf_folder, pending_pdf, bill_log, pdf_log>>

procVars == <<pc, last_no, pdf_file>>

catalogVars == <<products_table, catalog_last, csv_file, exported, second_store,
                 products, ui_last>>

dispatchVars == <<dispatch_pc, bill_preview, win32print, printer_var, tmp_pdf,
                  attempts, messages, dispatches>>

archiveVars == <<bills_table, finalize_last>>

objectVars == <<dicts, item_ids, captured>>

pageVars == <<lines, canvas>>

\* what the handlers of the ledger leave alone
notLedger == <<numberingVars, procVars, catalogVars, dispatchVars, archiveVars,
    objectVars, pageVars>>
\* what the numbering service leaves alone
notNumbering == <<ledgerVars, catalogVars, dispatchVars, archiveVars,
    objectVars, pageVars>>
\* what the catalog store leaves alone
notCatalog == <<ledgerVars, numberingVars, procVars, dispatchVars, archiveVars,
    objectVars, pageVars>>
\* what the output dispatcher leaves alone
notDispatch == <<ledgerVars, numberingVars, procVars, catalogVars, archiveVars,
    objectVars, pageVars>>

vars == <<ledgerVars, numberingVars, procVars, catalogVars, dispatchVars, archiveVars,
    objectVars, pageVars>>

----------------------------------------------------------------------------
\* Bounds of the model

\* longest bill the model builds
MaxItems == 2
\* most snapshots the model pushes after the one pushed by __init__
MaxPush == 2
\* most changes of the Paid, GST % and customer entries the model makes
MaxEdits == 2
\* most entries of bill_log and pdf_log together
MaxLog == 4

----------------------------------------------------------------------------
\* Program constants

DEFAULT_GST_PERCENT == 1800
DEFAULT_LOW_STOCK_THRESHOLD == 100
maxlen == 200

----------------------------------------------------------------------------
\* Arithmetic helpers

\* round(n / d, 0) for d > 0, ties to even
RoundDiv(n, d) ==
    LET q == n \div d
        r == n % d
    IN  IF 2 * r < d THEN q
        ELSE IF 2 * r > d THEN q + 1
        ELSE IF q % 2 = 0 THEN q ELSE q + 1

RECURSIVE SumTotals(_)
SumTotals(its) ==
    IF its = <<>> THEN 0 ELSE its[1].total + SumTotals(Tail(its))

\* the line total as it would be without the discount
line_total_undiscounted(rate, disc, qty) == rate * qty

\* round(rate * qty * (1 - disc/100), 2)
line_total(rate, disc, qty) == RoundDiv(rate * qty * (10000 - disc), 10000)

\* round(sub_total * gst_percent / 100, 2)
gst_amt(sub, gst) == RoundDiv(sub * gst, 10000)

----------------------------------------------------------------------------
\* Text as the numbering service formats and parses it: sequences of characters

Digits == <<"0", "1", "2", "3", "4", "5", "6", "7", "8", "9">>
IsDigit(c) == \E d \in 1 .. 10 : Digits[d] = c
DigitValue(c) == (CHOOSE d \in 1 .. 10 : Digits[d] = c) - 1
IsSpace(c) == c \in {" ", "\n"}

RECURSIVE str_nat(_)
str_nat(n) ==
    IF n < 10 THEN <<Digits[n + 1]>> ELSE str_nat(n \div 10) \o <<Digits[(n % 10) + 1]>>

\* str(n) of an int
str(n) == IF n < 0 THEN <<"-">> \o str_nat(0 - n) ELSE str_nat(n)

RECURSIVE Zeros(_)
Zeros(k) == IF k <= 0 THEN <<>> ELSE <<"0">> \o Zeros(k - 1)

\* f"{n:0Wd}": the sign first, then zeros up to width w, then the digits
zero_pad(n, w) ==
    IF n < 0 THEN <<"-">> \o Zeros(w - 1 - Len(str_nat(0 - n))) \o str_nat(0 - n)
    ELSE Zeros(w - Len(str_nat(n))) \o str_nat(n)

RECURSIVE lstrip(_)
lstrip(s) == IF s # <<>> /\ IsSpace(s[1]) THEN lstrip(Tail(s)) ELSE s
RECURSIVE rstrip(_)
rstrip(s) == IF s # <<>> /\ IsSpace(s[Len(s)]) THEN rstrip(SubSeq(s, 1, Len(s) - 1)) ELSE s
\* s.strip()
strip(s) == rstrip(lstrip(s))

RECURSIVE nat_value(_)
nat_value(s) ==
    IF s = <<>> THEN 0 ELSE 10 * nat_value(SubSeq(s, 1, Len(s) - 1)) + DigitValue(s[Len(s)])

Unsigned(s) == IF s # <<>> /\ s[1] \in {"-", "+"} THEN Tail(s) ELSE s
\* whether int(s) returns rather than raising ValueError
int_parses(s) ==
    LET u == Unsigned(strip(s))
    IN  u # <<>> /\ \A i \in 1 .. Len(u) : IsDigit(u[i])
\* int(s)
int_of(s) ==
    LET t == strip(s)
    IN  IF t[1] = "-" THEN 0 - nat_value(Unsigned(t)) ELSE nat_value(Unsigned(t))

\* s.isdigit()
isdigit(s) == s # <<>> /\ \A i \in 1 .. Len(s) : IsDigit(s[i])

UpperCase == <<"A", "B", "C", "D", "E", "F", "G", "H", "I", "J", "K", "L", "M",
               "N", "O", "P", "Q", "R", "S", "T", "U", "V", "W", "X", "Y", "Z">>
LowerCase == <<"a", "b", "c", "d", "e", "f", "g", "h", "i", "j", "k", "l", "m",
               "n", "o", "p", "q", "r", "s", "t", "u", "v", "w", "x", "y", "z">>
lower_char(c) ==
    IF \E k \in 1 .. 26 : UpperCase[k] = c
      THEN LowerCase[CHOOSE k \in 1 .. 26 : UpperCase[k] = c]
      ELSE c
\* s.lower()
lower(s) == [i \in 1 .. Len(s) |-> lower_char(s[i])]

\* repr of a float with at most two decimals, given in hundredths: what
\* csv.writer puts in the cell
float_repr(h) ==
    LET a == IF h < 0 THEN 0 - h ELSE h
        f == a % 100
        frac == IF f % 10 = 0 THEN <<Digits[(f \div 10) + 1]>>
                ELSE <<Digits[(f \div 10) + 1], Digits[(f % 10) + 1]>>
    IN  (IF h < 0 THEN <<"-">> ELSE <<>>) \o str_nat(a \div 100) \o <<".">> \o frac

\* the position of the "." of s, 0 when there is none
DotAt(s) == IF \E i \in 1 .. Len(s) : s[i] = "." THEN CHOOSE i \in 1 .. Len(s) : s[i] = "." ELSE 0
IntPart(s) == IF DotAt(s) = 0 THEN s ELSE SubSeq(s, 1, DotAt(s) - 1)
FracPart(s) == IF DotAt(s) = 0 THEN <<>> ELSE SubSeq(s, DotAt(s) + 1, Len(s))

\* whether float(s) returns rather than raising ValueError, for the decimal
\* notation with at most two decimals (exponents, inf and nan are not modelled)
float_parses(s) ==
    LET u == Unsigned(strip(s))
    IN  /\ IntPart(u) \o FracPart(u) # <<>>
        /\ \A i \in 1 .. Len(IntPart(u)) : IsDigit(IntPart(u)[i])
        /\ \A i \in 1 .. Len(FracPart(u)) : IsDigit(FracPart(u)[i])
        /\ Len(FracPart(u)) <= 2
\* float(s), in hundredths
float_of(s) ==
    LET t == strip(s)
        u == Unsigned(t)
        fr == FracPart(u)
        a == 100 * nat_value(IntPart(u))
             + (IF Len(fr) = 0 THEN 0
                ELSE IF Len(fr) = 1 THEN 10 * nat_value(fr) ELSE nat_value(fr))
    IN  IF t[1] = "-" THEN 0 - a ELSE a
\* int(x) of a float x given in hundredths: towards zero
int_trunc(h) == IF h < 0 THEN 0 - ((0 - h) \div 100) ELSE h \div 100

----------------------------------------------------------------------------
\* Form fields: the text typed into an entry, and what float()/int() make of it

FloatTexts == {"", "100", "50", "60", "10", "abc", "-5", "150"}
IntTexts == {"", "1", "2", "abc", "2.5", "-1"}

is_float(t) == t \in {"", "100", "50", "60", "10", "-5", "150"}
\* float(text or 0), in hundredths
float(t) ==
    CASE t = "" -> 0
      [] t = "100" -> 10000
      [] t = "50" -> 5000
      [] t = "60" -> 6000
      [] t = "10" -> 1000
      [] t = "-5" -> 0 - 500
      [] t = "150" -> 15000
      [] OTHER -> 0

is_int(t) == t \in {"", "1", "2", "-1"}
\* int(text or 0)
int(t) ==
    CASE t = "" -> 0
      [] t = "1" -> 1
      [] t = "2" -> 2
      [] t = "-1" -> 0 - 1
      [] OTHER -> 0

\* what the user can type into the "Add Item" row
AddForms ==
    { [name |-> "A", mrp |-> "",   rate |-> "100", disc |-> "",   qty |-> "2"],
      [name |-> "B", mrp |-> "60", rate |-> "50",  disc |-> "10", qty |-> "1"],
      [name |-> "",  mrp |-> "",   rate |-> "100", disc |-> "",   qty |-> "1"],
      [name |-> "A", mrp |-> "",   rate |-> "abc", disc |-> "",   qty |-> "1"],
      [name |-> "B", mrp |-> "",   rate |-> "50",  disc |-> "",   qty |-> "2.5"] }

\* what the user can answer to the five prompts of "Edit Item"; name "<cancel>"
\* stands for askstring returning None
EditForms ==
    { [name |-> "B", mrp |-> "60", rate |-> "50",  disc |-> "10", qty |-> "1"],
      [name |-> "<cancel>", mrp |-> "", rate |-> "", disc |-> "", qty |-> ""],
      [name |-> "A", mrp |-> "",   rate |-> "abc", disc |-> "",   qty |-> ""] }

\* the same with entries that parse and are negative or above 100 %
SignedAddForms ==
    AddForms \cup
    { [name |-> "A", mrp |-> "",   rate |-> "100", disc |-> "",    qty |-> "-1"],
      [name |-> "B", mrp |-> "",   rate |-> "-5",  disc |-> "",    qty |-> "1"],
      [name |-> "B", mrp |-> "60", rate |-> "50",  disc |-> "150", qty |-> "1"] }
SignedEditForms ==
    EditForms \cup
    { [name |-> "B", mrp |-> "",   rate |-> "",    disc |-> "",    qty |-> "-1"] }

\* what the user can leave in the two customer entries: <<name, phone>>
Customers == {<<"Customer", "">>, <<"Ravi", "98">>}
PaidValues == {0, 5000}
GstValues == {1800, 500}

----------------------------------------------------------------------------
\* UndoRedoStack

\* BillingApp._snapshot, as serialised by json.dumps in push
snapshot(its, cn, cp, paid, gst) ==
    [items |-> its, cust_name |-> cn, cust_phone |-> cp, paid |-> paid, gst |-> gst]

\* UndoRedoStack.push: the pair <<stack, index>> after push(snap)
\* push without the pop(0) that keeps the list within maxlen
push_keeps_all(stk, idx, snap) ==
    LET kept == IF idx < Len(stk) - 1 THEN SubSeq(stk, 1, idx + 1) ELSE stk
        app == Append(kept, snap)
    IN  <<app, Len(app) - 1>>

push(stk, idx, snap) ==
    LET kept == IF idx < Len(stk) - 1 THEN SubSeq(stk, 1, idx + 1) ELSE stk
        app == Append(kept, snap)
        cut == IF Len(app) > maxlen THEN Tail(app) ELSE app
    IN  <<cut, Len(cut) - 1>>

can_undo(stk, idx) == idx > 0
can_redo(stk, idx) == idx < Len(stk) - 1

\* undo as it would be if it popped the entry it steps back from
undo_pops(stk, idx) ==
    IF ~can_undo(stk, idx) THEN <<stk, idx, <<>> >>
    ELSE <<SubSeq(stk, 1, idx), idx - 1, <<stk[idx]>> >>

\* UndoRedoStack.undo: <<stack, index, returned entry or <<>> >>
undo(stk, idx) ==
    IF ~can_undo(stk, idx) THEN <<stk, idx, <<>> >>
    ELSE <<stk, idx - 1, <<stk[idx]>> >>

\* UndoRedoStack.redo
redo(stk, idx) ==
    IF ~can_redo(stk, idx) THEN <<stk, idx, <<>> >>
    ELSE <<stk, idx + 1, <<stk[idx + 2]>> >>

----------------------------------------------------------------------------
\* The ledger as the claims see it

Ledger ==
    [items |-> items_in_bill, cust_name |-> cust_name, cust_phone |-> cust_phone,
     paid |-> paid_amount]

FullState ==
    [items |-> items_in_bill, cust_name |-> cust_name, cust_phone |-> cust_phone,
     paid |-> paid_amount, gst |-> gst_percent, stack |-> stack, index |-> index]

\* last.op tells what the handler that ran last was: "undo", "redo", "bill" (one
\* of add, delete, edit, duplicate, move, clear that went through) or "other";
\* last.pre is <<Ledger on entry>> of a "bill" handler (and stays through an undo
\* that follows it);
\* last.at_undo is <<FullState on entry to undo>> while undo or the redo right
\* after it is the last handler.
Ran(op) == [op |-> op, pre |-> <<>>, at_undo |-> <<>>]
Mutated(op) == [op |-> op, pre |-> <<Ledger>>, at_undo |-> <<>>]

----------------------------------------------------------------------------
\* BillingApp: pieces the handlers share

\* the item dict built by add_item and rebuilt by edit_selected_item
item(name, mrp, rate, disc, qty) ==
    [name |-> name, mrp |-> mrp, rate |-> rate, discount |-> disc, qty |-> qty,
     total |-> line_total(rate, disc, qty)]

\* self._push_snapshot(): push self._snapshot() of the bill `its`
push_snapshot(its) ==
    LET p == push(stack, index, snapshot(its, cust_name, cust_phone, paid_amount, gst_percent))
    IN  stack' = p[1] /\ index' = p[2]

\* update_totals as it would be if it added the newest line to the running sum
update_totals_running(its) ==
    LET sub == IF its = <<>> THEN 0 ELSE sub_total + its[Len(its)].total
    IN  /\ sub_total' = sub
        /\ gst_label' = gst_amt(sub, gst_percent)
        /\ total' = sub + gst_amt(sub, gst_percent)
        /\ due_label' = sub + gst_amt(sub, gst_percent) - paid_amount

\* update_totals() followed by update_due(), on the bill `its`
update_totals(its) ==
    /\ sub_total' = SumTotals(its)
    /\ gst_label' = gst_amt(SumTotals(its), gst_percent)
    /\ total' = SumTotals(its) + gst_amt(SumTotals(its), gst_percent)
    /\ due_label' = SumTotals(its) + gst_amt(SumTotals(its), gst_percent) - paid_amount

\* a handler that returns early: nothing but the record of the call changes
returns_early ==
    /\ last' = Ran("other")
    /\ UNCHANGED <<items_in_bill, sub_total, total, gst_label, due_label, gst_percent,
                   paid_amount, cust_name, cust_phone, selection, stack, index, edits>>

RemoveAt(s, i) == SubSeq(s, 1, i) \o SubSeq(s, i + 2, Len(s))
InsertAfter(s, i, x) == SubSeq(s, 1, i + 1) \o <<x>> \o SubSeq(s, i + 2, Len(s))
Swap(s, i, j) == [s EXCEPT ![i + 1] = s[j + 1], ![j + 1] = s[i + 1]]

RECURSIVE Filter(_, _)
Filter(s, th) ==
    IF s = <<>> THEN <<>>
    ELSE (IF s[1].qty > th THEN <<s[1]>> ELSE <<>>) \o Filter(Tail(s), th)

\* room left under the bounds of the model
CanPush == Len(stack) <= MaxPush
CanGrow == Len(items_in_bill) < MaxItems
CanEdit == edits < MaxEdits

----------------------------------------------------------------------------
\* BillingApp: the handlers

\* the user clicks row i of the tree
select_row(i) ==
    /\ UNCHANGED notLedger
    /\ i \in 0 .. Len(items_in_bill) - 1
    /\ selection # <<i>>
    /\ selection' = <<i>>
    /\ last' = Ran("other")
    /\ UNCHANGED <<items_in_bill, sub_total, total, gst_label, due_label, gst_percent,
                   paid_amount, cust_name, cust_phone, stack, index, edits>>

add_item(f) ==
    /\ UNCHANGED notLedger
    /\ CanPush /\ CanGrow
    /\ IF ~(is_float(f.mrp) /\ is_float(f.rate) /\ is_float(f.disc) /\ is_int(f.qty))
          THEN returns_early
       ELSE IF f.name = ""
          THEN returns_early
       ELSE LET its == Append(items_in_bill,
                              item(f.name, float(f.mrp), float(f.rate), float(f.disc), int(f.qty)))
            IN  /\ items_in_bill' = its
                /\ push_snapshot(its)
                /\ update_totals(its)
                /\ selection' = <<>>
                /\ last' = Mutated("bill")
                /\ UNCHANGED <<gst_percent, paid_amount, cust_name, cust_phone, edits>>

delete_item ==
    /\ UNCHANGED notLedger
    /\ CanPush
    /\ IF selection = <<>>
          THEN returns_early
       ELSE LET idx == selection[1]
                its == IF 0 <= idx /\ idx < Len(items_in_bill)
                         THEN RemoveAt(items_in_bill, idx) ELSE items_in_bill
            IN  /\ items_in_bill' = its
                /\ push_snapshot(its)
                /\ update_totals(its)
                /\ selection' = <<>>
                /\ last' = Mutated("bill")
                /\ UNCHANGED <<gst_percent, paid_amount, cust_name, cust_phone, edits>>

duplicate_selected_item ==
    /\ UNCHANGED notLedger
    /\ CanPush /\ CanGrow
    /\ IF selection = <<>>
          THEN returns_early
       ELSE IF ~(0 <= selection[1] /\ selection[1] < Len(items_in_bill))
          THEN returns_early
       ELSE LET idx == selection[1]
                its == InsertAfter(items_in_bill, idx, items_in_bill[idx + 1])
            IN  /\ items_in_bill' = its
                /\ push_snapshot(its)
                /\ update_totals(its)
                /\ selection' = <<>>
                /\ last' = Mutated("bill")
                /\ UNCHANGED <<gst_percent, paid_amount, cust_name, cust_phone, edits>>

\* float(answer or item[field]) of one prompt of the edit dialog
edit_float(t, old) == IF t = "" THEN old ELSE float(t)
edit_int(t, old) == IF t = "" THEN old ELSE int(t)

edit_selected_item(f) ==
    /\ UNCHANGED notLedger
    /\ CanPush
    /\ IF selection = <<>>
          THEN returns_early
       ELSE IF ~(0 <= selection[1] /\ selection[1] < Len(items_in_bill))
          THEN returns_early
       ELSE IF f.name = "<cancel>"
          THEN returns_early
       ELSE IF ~(is_float(f.mrp) /\ is_float(f.rate) /\ is_float(f.disc) /\ is_int(f.qty))
          THEN returns_early
       ELSE LET idx == selection[1]
                old == items_in_bill[idx + 1]
                new == item(f.name, edit_float(f.mrp, old.mrp), edit_float(f.rate, old.rate),
                            edit_float(f.disc, old.discount), edit_int(f.qty, old.qty))
                its == [items_in_bill EXCEPT ![idx + 1] = new]
            IN  /\ items_in_bill' = its
                /\ push_snapshot(its)
                /\ update_totals(its)
                /\ selection' = <<>>
                /\ last' = Mutated("bill")
                /\ UNCHANGED <<gst_percent, paid_amount, cust_name, cust_phone, edits>>

move_item_up ==
    /\ UNCHANGED notLedger
    /\ CanPush
    /\ IF selection = <<>>
          THEN returns_early
       ELSE IF selection[1] <= 0
          THEN returns_early
       ELSE LET idx == selection[1]
                its == Swap(items_in_bill, idx - 1, idx)
            IN  /\ items_in_bill' = its
                /\ push_snapshot(its)
                /\ selection' = <<idx - 1>>
                /\ last' = Mutated("bill")
                /\ UNCHANGED <<sub_total, total, gst_label, due_label, gst_percent,
                               paid_amount, cust_name, cust_phone, edits>>

move_item_down ==
    /\ UNCHANGED notLedger
    /\ CanPush
    /\ IF selection = <<>>
          THEN returns_early
       ELSE IF selection[1] >= Len(items_in_bill) - 1
          THEN returns_early
       ELSE LET idx == selection[1]
                its == Swap(items_in_bill, idx + 1, idx)
            IN  /\ items_in_bill' = its
                /\ push_snapshot(its)
                /\ selection' = <<idx + 1>>
                /\ last' = Mutated("bill")
                /\ UNCHANGED <<sub_total, total, gst_label, due_label, gst_percent,
                               paid_amount, cust_name, cust_phone, edits>>

\* clear_all, also reached through new_client
clear_all ==
    /\ UNCHANGED notLedger
    /\ CanPush
    /\ items_in_bill' = <<>>
    /\ push_snapshot(<<>>)
    /\ update_totals(<<>>)
    /\ selection' = <<>>
    /\ cust_name' = "Customer"
    /\ cust_phone' = ""
    /\ last' = Mutated("bill")
    /\ UNCHANGED <<gst_percent, paid_amount, edits>>

delete_low_stock_items ==
    /\ UNCHANGED notLedger
    /\ CanPush
    /\ LET its == Filter(items_in_bill, DEFAULT_LOW_STOCK_THRESHOLD)
       IN  /\ items_in_bill' = its
           /\ push_snapshot(its)
           /\ update_totals(its)
    /\ selection' = <<>>
    /\ last' = Ran("other")
    /\ UNCHANGED <<gst_percent, paid_amount, cust_name, cust_phone, edits>>

\* a key released in the Paid entry: the DoubleVar follows the text, then update_due
set_paid(v) ==
    /\ UNCHANGED notLedger
    /\ CanEdit
    /\ edits' = edits + 1
    /\ v # paid_amount
    /\ paid_amount' = v
    /\ due_label' = total - v
    /\ last' = Ran("other")
    /\ UNCHANGED <<items_in_bill, sub_total, total, gst_label, gst_percent,
                   cust_name, cust_phone, selection, stack, index>>

\* the GST % entry is bound to the DoubleVar and to nothing else
set_gst_percent(v) ==
    /\ UNCHANGED notLedger
    /\ CanEdit
    /\ edits' = edits + 1
    /\ v # gst_percent
    /\ gst_percent' = v
    /\ last' = Ran("other")
    /\ UNCHANGED <<items_in_bill, sub_total, total, gst_label, due_label, paid_amount,
                   cust_name, cust_phone, selection, stack, index>>

set_customer(c) ==
    /\ UNCHANGED notLedger
    /\ CanEdit
    /\ edits' = edits + 1
    /\ c # <<cust_name, cust_phone>>
    /\ cust_name' = c[1]
    /\ cust_phone' = c[2]
    /\ last' = Ran("other")
    /\ UNCHANGED <<items_in_bill, sub_total, total, gst_label, due_label, gst_percent,
                   paid_amount, selection, stack, index>>

\* Ctrl+R
refresh_totals ==
    /\ UNCHANGED notLedger
    /\ update_totals(items_in_bill)
    /\ last' = Ran("other")
    /\ UNCHANGED <<items_in_bill, gst_percent, paid_amount, cust_name, cust_phone,
                   selection, stack, index, edits>>

\* getattr(self, "undo", lambda: None)(): BillingApp defines no undo, so the
\* default runs and returns None
undo_clicked ==
    /\ UNCHANGED notLedger
    /\ last' = [op |-> "undo", pre |-> last.pre, at_undo |-> <<FullState>>]
    /\ UNCHANGED <<items_in_bill, sub_total, total, gst_label, due_label, gst_percent,
                   paid_amount, cust_name, cust_phone, selection, stack, index, edits>>

\* getattr(self, "redo", lambda: None)()
redo_clicked ==
    /\ UNCHANGED notLedger
    /\ last' = [op |-> "redo", pre |-> <<>>,
                at_undo |-> IF last.op = "undo" THEN last.at_undo ELSE <<>>]
    /\ UNCHANGED <<items_in_bill, sub_total, total, gst_label, due_label, gst_percent,
                   paid_amount, cust_name, cust_phone, selection, stack, index, edits>>

\* nothing has been asked of the numbering service
NumberingIdle ==
    /\ counter_file = <<>>
    /\ pdf_folder = {}
    /\ pending_pdf = <<>>
    /\ bill_log = <<>>
    /\ pdf_log = <<>>

\* the running instances of the program
Procs == {"p1", "p2"}

\* no instance is inside a call of the numbering service
ProcsIdle ==
    /\ pc = [p \in Procs |-> "idle"]
    /\ last_no = [p \in Procs |-> 0]
    /\ pdf_file = [p \in Procs |-> <<>>]

\* init_db on a new file: the table exists and is empty
CatalogIdle ==
    /\ products_table = <<>>
    /\ catalog_last = <<>>
    /\ csv_file = <<>>
    /\ exported = <<>>
    /\ second_store = <<>>
    /\ products = <<>>
    /\ ui_last = [op |-> "none"]

\* print_bill_to_printer was never run
DispatchIdle ==
    /\ dispatch_pc = "idle"
    /\ bill_preview = <<>>
    /\ win32print = FALSE
    /\ printer_var = <<>>
    /\ tmp_pdf = "none"
    /\ attempts = <<>>
    /\ messages = <<>>
    /\ dispatches = 0

\* init_db on a new file: table bills is empty
ArchiveIdle ==
    /\ bills_table = <<>>
    /\ finalize_last = <<>>

ObjectsIdle ==
    /\ dicts = <<>>
    /\ item_ids = <<>>
    /\ captured = <<>>

PagesIdle ==
    /\ lines = <<>>
    /\ canvas = <<>>

RestIdle == DispatchIdle /\ ArchiveIdle /\ ObjectsIdle /\ PagesIdle

\* BillingApp.__init__
LedgerInit ==
    /\ items_in_bill = <<>>
    /\ sub_total = 0
    /\ total = 0
    /\ gst_label = 0
    /\ due_label = 0
    /\ gst_percent = DEFAULT_GST_PERCENT
    /\ paid_amount = 0
    /\ cust_name = "Customer"
    /\ cust_phone = ""
    /\ selection = <<>>
    /\ stack = <<snapshot(<<>>, "Customer", "", 0, DEFAULT_GST_PERCENT)>>
    /\ index = 0
    /\ last = Ran("other")
    /\ edits = 0

Init == LedgerInit /\ NumberingIdle /\ ProcsIdle /\ CatalogIdle /\ RestIdle

Next ==
    \/ \E i \in 0 .. MaxItems : select_row(i)
    \/ \E f \in AddForms : add_item(f)
    \/ delete_item
    \/ duplicate_selected_item
    \/ \E f \in EditForms : edit_selected_item(f)
    \/ move_item_up
    \/ move_item_down
    \/ clear_all
    \/ delete_low_stock_items
    \/ \E v \in PaidValues : set_paid(v)
    \/ \E v \in GstValues : set_gst_percent(v)
    \/ \E c \in Customers : set_customer(c)
    \/ refresh_totals
    \/ undo_clicked
    \/ redo_clicked

Spec == Init /\ [][Next]_vars

----------------------------------------------------------------------------
\* Claims about the ledger and its history (checked under Spec)

RECURSIVE SumLineTotals(_)
SumLineTotals(its) ==
    IF its = <<>> THEN 0
    ELSE line_total(its[1].rate, its[1].discount, its[1].qty) + SumLineTotals(Tail(its))

TotalsRecomputed ==
    /\ sub_total = SumLineTotals(items_in_bill)
    /\ gst_label = gst_amt(sub_total, gst_percent)
    /\ total = sub_total + gst_label

\* C1: every add_item, delete_item or edit_selected_item that goes through
\* leaves sub_total equal to the sum of the line totals of the items now in the
\* bill, the GST amount equal to round(sub_total * gst_percent / 100, 2) for the
\* GST percent now set, and total equal to sub_total plus that GST amount.
C1_TotalsAfterMutation ==
    [][ ( /\ \/ \E f \in AddForms : add_item(f)
             \/ delete_item
             \/ \E f \in EditForms : edit_selected_item(f)
          /\ last'.op = "bill" )
        => TotalsRecomputed' ]_vars

\* C1 witness: item B was added to a bill holding A after the GST percent was
\* set to 5: 245.00 + 12.25 = 257.25.
C1_Witness ==
    /\ last.op = "bill"
    /\ Len(last.pre[1].items) = 1
    /\ Len(items_in_bill) = 2
    /\ items_in_bill[1].name = "A" /\ items_in_bill[2].name = "B"
    /\ gst_percent = 500
    /\ sub_total = 24500
    /\ total = 25725

\* C2: an undo issued right after add, delete, edit, duplicate, move or clear
\* leaves the ledger with the items, customer name, customer phone and paid
\* amount it had on entry to that operation.
C2_UndoRestoresPriorLedger ==
    (last.op = "undo" /\ last.pre # <<>>) => Ledger = last.pre[1]

\* C3: when undo is possible, undo followed at once by redo changes nothing:
\* items, customer fields, paid amount, GST percent, the history stack and its
\* cursor are what they were on entry to the undo, both for the two buttons of
\* the application and for UndoRedoStack.undo followed by UndoRedoStack.redo on
\* the application's stack.
C3_UndoThenRedoIsNoOp ==
    /\ (last.op = "redo" /\ last.at_undo # <<>> /\ last.at_undo[1].index > 0)
          => FullState = last.at_undo[1]
    /\ can_undo(stack, index)
          => LET u == undo(stack, index)
                 r == redo(u[1], u[2])
             IN  /\ u[2] = index - 1
                 /\ r[1] = stack
                 /\ r[2] = index
                 /\ r[3] = <<stack[index + 1]>>

\* C3 witness: Undo then Redo were pressed with two items in the bill and the
\* cursor on the third entry of the stack.
C3_Witness ==
    /\ last.op = "redo"
    /\ last.at_undo # <<>>
    /\ last.at_undo[1].index = 2
    /\ index = 2
    /\ Len(items_in_bill) = 2

----------------------------------------------------------------------------
\* Numbering service

\* last_no as get_next_bill_no reads it: 0 when the file is absent or int() raises
read_last_no(file) ==
    IF file = <<>> THEN 0
    ELSE IF int_parses(file[1]) THEN int_of(file[1]) ELSE 0

\* next_no as it would be if the increment were left out
next_no_stuck(file) == read_last_no(file)

next_no(file) == read_last_no(file) + 1

\* f"BILL-{next_no:06d}"
bill_id(n) == <<"B", "I", "L", "L", "-">> \o zero_pad(n, 6)

PdfExt == <<".", "p", "d", "f">>

endswith(s, suf) ==
    Len(s) >= Len(suf) /\ SubSeq(s, Len(s) - Len(suf) + 1, Len(s)) = suf

\* os.path.splitext(f)[0] of a name that ends with ".pdf"
stem(f) == IF Len(f) = Len(PdfExt) THEN f ELSE SubSeq(f, 1, Len(f) - Len(PdfExt))

Max(S) == CHOOSE x \in S : \A y \in S : y <= x

\* get_next_pdf_filename on a folder holding the names `folder`
next_pdf_filename(folder) ==
    LET existing == {f \in folder : endswith(f, PdfExt)}
        numbers == {int_of(stem(f)) : f \in {g \in existing : isdigit(stem(g))}}
        next_num == IF numbers # {} THEN Max(numbers) + 1 ELSE 1
    IN  IF existing = {} THEN zero_pad(1, 3) \o PdfExt
        ELSE zero_pad(next_num, 3) \o PdfExt

CanLog == Len(bill_log) + Len(pdf_log) < MaxLog

get_next_bill_no ==
    /\ CanLog
    /\ counter_file' = <<str(next_no(counter_file))>>
    /\ bill_log' = Append(bill_log, [kind |-> "call", no |-> next_no(counter_file),
                                     id |-> bill_id(next_no(counter_file))])
    /\ UNCHANGED <<pdf_folder, pending_pdf, pdf_log, procVars, notNumbering>>

\* the process dies between open(BILL_COUNTER_FILE, "w"), which empties the file,
\* and the write reaching it; nothing is returned
get_next_bill_no_interrupted ==
    /\ CanLog
    /\ counter_file' = << <<>> >>
    /\ bill_log' = Append(bill_log, [kind |-> "writer", no |-> 0, id |-> <<>>])
    /\ UNCHANGED <<pdf_folder, pending_pdf, pdf_log, procVars, notNumbering>>

\* text that is no integer, left in the counter file by something else
ForeignTexts == {<<"x">>}

counter_file_overwritten(t) ==
    /\ CanLog
    /\ counter_file' = <<t>>
    /\ bill_log' = Append(bill_log, [kind |-> "writer", no |-> 0, id |-> <<>>])
    /\ UNCHANGED <<pdf_folder, pending_pdf, pdf_log, procVars, notNumbering>>

get_next_pdf_filename ==
    /\ CanLog
    /\ pending_pdf = <<>>
    /\ pending_pdf' = <<next_pdf_filename(pdf_folder)>>
    /\ pdf_log' = Append(pdf_log, next_pdf_filename(pdf_folder))
    /\ UNCHANGED <<counter_file, pdf_folder, bill_log, procVars, notNumbering>>

\* print_and_save_pdf reaches c.save(): the file now exists under the name
pdf_saved ==
    /\ pending_pdf # <<>>
    /\ pdf_folder' = pdf_folder \cup {pending_pdf[1]}
    /\ pending_pdf' = <<>>
    /\ UNCHANGED <<counter_file, bill_log, pdf_log, procVars, notNumbering>>

\* print_and_save_pdf raises before c.save(): no file is written
pdf_not_saved ==
    /\ pending_pdf # <<>>
    /\ pending_pdf' = <<>>
    /\ UNCHANGED <<counter_file, pdf_folder, bill_log, pdf_log, procVars, notNumbering>>

\* the user deletes a file of the folder
pdf_discarded(f) ==
    /\ pending_pdf = <<>>
    /\ f \in pdf_folder
    /\ pdf_folder' = pdf_folder \ {f}
    /\ UNCHANGED <<counter_file, pending_pdf, bill_log, pdf_log, procVars, notNumbering>>

\* what the counter file can hold when the program starts
InitialCounterFiles ==
    { <<>>, << <<"7", "\n">> >>, << <<"9", "9">> >>, << <<"-", "2">> >>,
      << <<"9", "9", "9", "9", "9", "8">> >> }

\* what the folder can hold when the program starts
InitialFolders ==
    { {}, {<<"m", ".", "p", "d", "f">>},
      {<<"0", "0", "7", ".", "p", "d", "f">>, <<"9", ".", "t", "x", "t">>} }

\* every name the folder can come to hold
FolderNames ==
    UNION InitialFolders \cup {zero_pad(n, 3) \o PdfExt : n \in 1 .. 7 + MaxLog}

\* the application has just started and none of its handlers runs
LedgerIdle ==
    LedgerInit

NumberingInit ==
    /\ LedgerIdle
    /\ ProcsIdle
    /\ CatalogIdle
    /\ RestIdle
    /\ counter_file \in InitialCounterFiles
    /\ pdf_folder \in InitialFolders
    /\ pending_pdf = <<>>
    /\ bill_log = <<>>
    /\ pdf_log = <<>>

NumberingNext ==
    \/ get_next_bill_no
    \/ get_next_bill_no_interrupted
    \/ \E t \in ForeignTexts : counter_file_overwritten(t)
    \/ get_next_pdf_filename
    \/ pdf_saved
    \/ pdf_not_saved
    \/ \E f \in FolderNames : pdf_discarded(f)

SpecNumbering == NumberingInit /\ [][NumberingNext]_vars

----------------------------------------------------------------------------
\* Claims about the numbering service, one caller at a time (SpecNumbering)

BillPrefix == <<"B", "I", "L", "L", "-">>
Calls(log) == {i \in 1 .. Len(log) : log[i].kind = "call"}

\* C4: calls of get_next_bill_no that follow one another with no other writer
\* of the counter file in between return integers that each are 1 more than
\* the one before; each id is "BILL-" followed by the integer in decimal, padded
\* with zeros to at least 6 characters; and after a call the counter file holds
\* the integer returned.
C4_SequentialBillNumbers ==
    /\ \A i \in Calls(bill_log) :
          LET id == bill_log[i].id
              no == bill_log[i].no
              tail == SubSeq(id, Len(BillPrefix) + 1, Len(id))
          IN  /\ SubSeq(id, 1, Len(BillPrefix)) = BillPrefix
              /\ Len(tail) >= 6
              /\ int_parses(tail) /\ int_of(tail) = no
              /\ Len(tail) > 6 => tail = str(no)
              /\ (i > 1 /\ bill_log[i - 1].kind = "call") => no = bill_log[i - 1].no + 1
    /\ (bill_log # <<>> /\ bill_log[Len(bill_log)].kind = "call")
          => /\ counter_file # <<>>
             /\ int_parses(counter_file[1])
             /\ int_of(counter_file[1]) = bill_log[Len(bill_log)].no

\* C4 witness: three calls in a row, the third one returning 1000001.
C4_Witness ==
    /\ Len(bill_log) = 3
    /\ \A i \in 1 .. 3 : bill_log[i].kind = "call"
    /\ bill_log[3].no = 1000001
    /\ bill_log[1].id = BillPrefix \o <<"9", "9", "9", "9", "9", "9">>

\* the number in a name returned by get_next_pdf_filename
Index(name) == int_of(stem(name))

\* C6: the indices of the names get_next_pdf_filename returns are strictly
\* increasing, so no name is returned twice, whatever happened to the files
\* written under the earlier names.
C6_PdfNamesNeverReused ==
    \A i, j \in 1 .. Len(pdf_log) : i < j => Index(pdf_log[i]) < Index(pdf_log[j])

\* C7: no bill number is returned twice, whatever the counter file held when
\* the later call read it.
C7_BillNumbersNeverReused ==
    \A i, j \in Calls(bill_log) : i < j => bill_log[i].no # bill_log[j].no

----------------------------------------------------------------------------
\* Numbering service used by two instances of the program on the same files.
\* Each instance runs the statements of get_next_bill_no and of
\* get_next_pdf_filename .. c.save() in order; the statements of the two
\* instances interleave.

\* lines 81-89: read the counter file
bill_read(p) ==
    /\ CanLog
    /\ pc[p] = "idle"
    /\ last_no' = [last_no EXCEPT ![p] = read_last_no(counter_file)]
    /\ pc' = [pc EXCEPT ![p] = "bill_open"]
    /\ UNCHANGED <<counter_file, pdf_folder, pending_pdf, bill_log, pdf_log, pdf_file,
                   notNumbering>>

\* line 90: open(BILL_COUNTER_FILE, "w") empties the file
bill_open(p) ==
    /\ pc[p] = "bill_open"
    /\ counter_file' = << <<>> >>
    /\ pc' = [pc EXCEPT ![p] = "bill_write"]
    /\ UNCHANGED <<pdf_folder, pending_pdf, bill_log, pdf_log, last_no, pdf_file,
                   notNumbering>>

\* lines 91-92: write next_no, close, return
bill_write(p) ==
    /\ pc[p] = "bill_write"
    /\ counter_file' = <<str(last_no[p] + 1)>>
    /\ bill_log' = Append(bill_log, [kind |-> "call", no |-> last_no[p] + 1,
                                     id |-> bill_id(last_no[p] + 1)])
    /\ pc' = [pc EXCEPT ![p] = "idle"]
    /\ UNCHANGED <<pdf_folder, pending_pdf, pdf_log, last_no, pdf_file, notNumbering>>

\* line 1112: pdf_file = get_next_pdf_filename()
pdf_name(p) ==
    /\ CanLog
    /\ pc[p] = "idle"
    /\ pdf_file' = [pdf_file EXCEPT ![p] = next_pdf_filename(pdf_folder)]
    /\ pdf_log' = Append(pdf_log, next_pdf_filename(pdf_folder))
    /\ pc' = [pc EXCEPT ![p] = "pdf_save"]
    /\ UNCHANGED <<counter_file, pdf_folder, pending_pdf, bill_log, last_no, notNumbering>>

\* lines 1114-1138: c.save() writes the file
pdf_save(p) ==
    /\ pc[p] = "pdf_save"
    /\ pdf_folder' = pdf_folder \cup {pdf_file[p]}
    /\ pc' = [pc EXCEPT ![p] = "idle"]
    /\ UNCHANGED <<counter_file, pending_pdf, bill_log, pdf_log, last_no, pdf_file,
                   notNumbering>>

ConcurrentInit ==
    /\ LedgerIdle
    /\ CatalogIdle
    /\ RestIdle
    /\ ProcsIdle
    /\ counter_file \in InitialCounterFiles
    /\ pdf_folder \in InitialFolders
    /\ pending_pdf = <<>>
    /\ bill_log = <<>>
    /\ pdf_log = <<>>

ConcurrentNext ==
    \E p \in Procs :
        \/ bill_read(p)
        \/ bill_open(p)
        \/ bill_write(p)
        \/ pdf_name(p)
        \/ pdf_save(p)

SpecConcurrent == ConcurrentInit /\ [][ConcurrentNext]_vars

\* C5: allocations of two instances whose statements interleave never return
\* the same bill number, and never the same output file name.
C5_ConcurrentAllocationsDistinct ==
    /\ \A i, j \in Calls(bill_log) : i < j => bill_log[i].no # bill_log[j].no
    /\ \A i, j \in 1 .. Len(pdf_log) : i < j => pdf_log[i] # pdf_log[j]

----------------------------------------------------------------------------
\* Catalog store.  A value of a product dict, of a column of the table or of a
\* cell is None, a str, a float (in hundredths) or an int.

None == <<>>
Text(t) == <<"s", t>>
Real(h) == <<"f", h>>
Whole(n) == <<"i", n>>

IsNumber(v) == v # None /\ v[1] \in {"f", "i"}
\* the number a float or an int stands for, in hundredths
Hundredths(v) == IF v[1] = "i" THEN 100 * v[2] ELSE v[2]
\* Python's a == b for two values of the same column
py_eq(a, b) ==
    IF a = None \/ b = None THEN a = b
    ELSE IF IsNumber(a) /\ IsNumber(b) THEN Hundredths(a) = Hundredths(b)
    ELSE a = b
\* Python's truth value
truthy(v) ==
    IF v = None THEN FALSE
    ELSE IF IsNumber(v) THEN Hundredths(v) # 0
    ELSE v[2] # <<>>

\* the columns in the order of the header row written by export_products_csv
Columns ==
    <<"name", "sku", "category", "brand", "size", "color", "hsn", "mrp", "rate",
      "wholesale", "super_wholesale", "discount", "qty", "image_path", "notes">>
ColumnSet == {Columns[i] : i \in 1 .. Len(Columns)}
RealColumns == {"mrp", "rate", "wholesale", "super_wholesale", "discount"}
TextColumns == ColumnSet \ (RealColumns \cup {"qty", "name"})

\* save_product_to_db as it would be with the SELECT left out
save_product_to_db_inserts(rows, p) == Append(rows, p)

\* save_product_to_db: SELECT id WHERE name=?, then UPDATE that row (every
\* column but name) or INSERT.  name=? is SQLite's comparison of text, exact in
\* letter case, and is never true of NULL.
save_product_to_db(rows, p) ==
    LET found == {i \in 1 .. Len(rows) : p.name # None /\ rows[i].name = p.name}
    IN  IF found # {}
          THEN LET pid == CHOOSE i \in found : \A j \in found : i <= j
               IN  [rows EXCEPT ![pid] = [p EXCEPT !.name = rows[pid].name]]
          ELSE Append(rows, p)

RECURSIVE SelectRows(_, _)
\* the rows whose name is not `name`
SelectRows(rows, name) ==
    IF rows = <<>> THEN <<>>
    ELSE (IF rows[1].name = name THEN <<>> ELSE <<rows[1]>>) \o SelectRows(Tail(rows), name)

\* delete_product_from_db: DELETE FROM products WHERE name=?
delete_product_from_db(rows, name) == SelectRows(rows, name)

\* r[k] or 0
or_zero(v) == IF truthy(v) THEN v ELSE Whole(0)

\* str(r[1]).lower() of a row
key_of(row) == lower(row.name[2])

\* load_products_from_db: the dict as a function from its keys; a later row
\* with the same key replaces an earlier one
load_products_from_db(rows) ==
    [k \in {key_of(rows[i]) : i \in 1 .. Len(rows)} |->
        LET i == Max({j \in 1 .. Len(rows) : key_of(rows[j]) = k})
        IN  [c \in ColumnSet |->
                IF c \in RealColumns \cup {"qty"} THEN or_zero(rows[i][c]) ELSE rows[i][c]]]

\* the cell csv.writer writes for a value: "" for None, the text itself, repr
\* of a float, str of an int; as csv.reader gives it back
cell(v) ==
    IF v = None THEN <<>>
    ELSE IF v[1] = "s" THEN v[2]
    ELSE IF v[1] = "f" THEN float_repr(v[2])
    ELSE str(v[2])

RECURSIVE SeqOf(_)
\* the elements of a finite set, one after the other
SeqOf(S) == IF S = {} THEN <<>> ELSE LET x == CHOOSE x \in S : TRUE IN <<x>> \o SeqOf(S \ {x})

\* export_products_csv: one row of cells per entry of the dict; the name cell
\* is p.get("name") or the key
export_products_csv(catalog) ==
    LET keys == SeqOf(DOMAIN catalog)
    IN  [n \in 1 .. Len(keys) |->
            [c \in ColumnSet |->
                IF c = "name" /\ ~truthy(catalog[keys[n]].name) THEN keys[n]
                ELSE cell(catalog[keys[n]][c])]]

\* the name import_products_csv gives a row: the first non-empty among the
\* cells name, Name, product, Product, sku, then the cell of the first column;
\* a file written by export_products_csv has the columns name and sku of these
resolved_name(r) ==
    IF r.name # <<>> THEN r.name
    ELSE IF r.sku # <<>> THEN r.sku
    ELSE r.name

\* float(r.get(c, 0) or 0)
cell_float(t) == IF t = <<>> THEN 0 ELSE float_of(t)
cell_parses(t) == t = <<>> \/ float_parses(t)

\* the dict p import_products_csv builds from a row with a name
imported_product(r) ==
    LET ok == \A c \in RealColumns \cup {"qty"} : cell_parses(r[c])
    IN  [c \in ColumnSet |->
            IF c = "name" THEN Text(resolved_name(r))
            ELSE IF c \in RealColumns THEN Real(IF ok THEN cell_float(r[c]) ELSE 0)
            ELSE IF c = "qty" THEN Whole(IF ok THEN int_trunc(cell_float(r[c])) ELSE 0)
            ELSE IF c = "category" THEN (IF r[c] # <<>> THEN Text(r[c]) ELSE None)
            ELSE Text(r[c])]

RECURSIVE import_products_csv(_, _)
\* import_products_csv: the table after the rows of the file have been read
import_products_csv(file, rows) ==
    IF file = <<>> THEN rows
    ELSE IF resolved_name(file[1]) = <<>> THEN import_products_csv(Tail(file), rows)
    ELSE import_products_csv(Tail(file), save_product_to_db(rows, imported_product(file[1])))

\* the dict on_add of the "Add Product" dialog builds: an entry left blank is
\* None, the numeric entries go through float(x or 0) and int(float(x or 0))
Product(name, sku, category, notes, mrp, rate, discount, qty) ==
    [name |-> Text(name), sku |-> sku, category |-> category, brand |-> None,
     size |-> None, color |-> None, hsn |-> None, mrp |-> Real(mrp), rate |-> Real(rate),
     wholesale |-> Real(0), super_wholesale |-> Real(0), discount |-> Real(discount),
     qty |-> Whole(qty), image_path |-> None, notes |-> notes]

NameAb == <<"A", "b">>
Nameab == <<"a", "b">>
NameCd == <<"C", "d">>
ProductNames == {NameAb, Nameab, NameCd}

\* what the user can enter in the dialog
Products ==
    { Product(NameAb, None, None, None, 120000, 99950, 1000, 42),
      Product(NameAb, Text(<<"s", "1">>), Text(<<"c">>), Text(<<"n", ",", "1">>), 120000, 90000, 0, 7),
      Product(Nameab, None, Text(<<"c">>), None, 500, 450, 1050, 3),
      Product(NameCd, Text(<<"s", "2">>), None, None, 2005, 2005, 0, 0) }

save_product(p) ==
    /\ products_table' = save_product_to_db(products_table, p)
    /\ catalog_last' = IF catalog_last # <<>> /\ catalog_last[1] = p THEN <<p, p>> ELSE <<p>>
    /\ UNCHANGED <<csv_file, exported, second_store, products, ui_last, notCatalog>>

delete_product(name) ==
    /\ products_table' = delete_product_from_db(products_table, Text(name))
    /\ catalog_last' = <<>>
    /\ UNCHANGED <<csv_file, exported, second_store, products, ui_last, notCatalog>>

\* export_products_csv(out_file, load_products_from_db())
export_catalog ==
    /\ exported' = <<load_products_from_db(products_table)>>
    /\ csv_file' = <<export_products_csv(load_products_from_db(products_table))>>
    /\ second_store' = <<>>
    /\ UNCHANGED <<products_table, catalog_last, products, ui_last, notCatalog>>

\* import_products_csv(out_file, db_file) with db_file a store just made by init_db
import_into_empty_store ==
    /\ csv_file # <<>>
    /\ second_store = <<>>
    /\ second_store' = <<import_products_csv(csv_file[1], <<>>)>>
    /\ UNCHANGED <<products_table, catalog_last, csv_file, exported, products, ui_last, notCatalog>>

CatalogInit ==
    /\ LedgerIdle
    /\ NumberingIdle
    /\ ProcsIdle
    /\ CatalogIdle
    /\ RestIdle

CatalogNext ==
    \/ \E p \in Products : save_product(p)
    \/ \E n \in ProductNames : delete_product(n)
    \/ export_catalog
    \/ import_into_empty_store

SpecCatalog == CatalogInit /\ [][CatalogNext]_vars

----------------------------------------------------------------------------
\* Claims about the catalog store (SpecCatalog)

RowsNamed(rows, name) == {i \in 1 .. Len(rows) : rows[i].name = name}

\* C8: save_product_to_db called a second time with the product of the call
\* just before it leaves the table as that first call left it, with exactly
\* one row of that name.
C8_UpsertIdempotent ==
    [][ \A p \in Products :
          (save_product(p) /\ catalog_last # <<>> /\ catalog_last[1] = p)
            => /\ products_table' = products_table
               /\ Cardinality(RowsNamed(products_table', p.name)) = 1 ]_vars

\* C8 witness: the same product was saved twice in a row into a table of
\* three rows, its row being the first.
C8_Witness ==
    /\ Len(catalog_last) = 2
    /\ Len(products_table) = 3
    /\ products_table[1] = catalog_last[1]

\* C9: the table holds at most one row per product name, names compared
\* without regard to letter case, and load_products_from_db has as many
\* entries as the table has rows.
C9_OneRowPerNameIgnoringCase ==
    /\ \A i, j \in 1 .. Len(products_table) :
          i # j => key_of(products_table[i]) # key_of(products_table[j])
    /\ Cardinality(DOMAIN load_products_from_db(products_table)) = Len(products_table)

\* dict equality, value by value
CatalogEq(a, b) ==
    /\ DOMAIN a = DOMAIN b
    /\ \A k \in DOMAIN a : \A c \in ColumnSet : py_eq(a[k][c], b[k][c])

\* C10: the catalog loaded from an empty store into which the exported file
\* was imported equals the catalog that was exported, name by name and field
\* by field, an absent text field staying absent.
C10_ExportImportRoundTrip ==
    second_store # <<>> => CatalogEq(load_products_from_db(second_store[1]), exported[1])

----------------------------------------------------------------------------
\* The Products tab of the application: the store and the in-memory lookup

\* d[k] = v and del d[k] on a dict
dict_set(d, k, v) == [x \in (DOMAIN d) \cup {k} |-> IF x = k THEN v ELSE d[x]]
dict_del(d, k) == [x \in (DOMAIN d) \ {k} |-> d[x]]

\* what a handler of the Products tab records of itself
Did(op) == [op |-> op, file |-> <<>>, before |-> <<>>, fail_at |-> 0]

\* on_add of open_add_product_dialog, the entries holding p
open_add_product_dialog(p) ==
    /\ products_table' = save_product_to_db(products_table, p)
    /\ products' = dict_set(products, lower(p.name[2]), p)
    /\ ui_last' = Did("add")
    /\ UNCHANGED <<catalog_last, csv_file, exported, second_store, notCatalog>>

\* on_save of open_edit_product_dialog, the row `key` selected and the
\* entries holding newp
open_edit_product_dialog(key, newp) ==
    /\ key \in DOMAIN products
    /\ products_table' = save_product_to_db(products_table, newp)
    /\ products' =
          LET d == dict_set(products, lower(newp.name[2]), newp)
          IN  IF lower(newp.name[2]) # lower(key) /\ lower(key) \in DOMAIN d
                THEN dict_del(d, lower(key))
                ELSE d
    /\ ui_last' = Did("edit")
    /\ UNCHANGED <<catalog_last, csv_file, exported, second_store, notCatalog>>

\* delete_selected_product, the row `key` selected and the question answered yes
delete_selected_product(key) ==
    /\ key \in DOMAIN products
    /\ products_table' = delete_product_from_db(products_table, products[key].name)
    /\ products' = dict_del(products, lower(products[key].name[2]))
    /\ ui_last' = Did("delete")
    /\ UNCHANGED <<catalog_last, csv_file, exported, second_store, notCatalog>>

\* reload_products, PRODUCT_FILE not being there: the lookup becomes the
\* loaded catalog unless that is empty
reload_products(rows, cache) ==
    IF DOMAIN load_products_from_db(rows) # {} THEN load_products_from_db(rows) ELSE cache

\* a row of a CSV file with the header of export_products_csv
CsvRow(name, sku, rate, qty) ==
    [c \in ColumnSet |->
        IF c = "name" THEN name
        ELSE IF c = "sku" THEN sku
        ELSE IF c = "rate" THEN rate
        ELSE IF c = "qty" THEN qty
        ELSE <<>>]

\* the files the user can pick
ImportFiles ==
    { << CsvRow(NameAb, <<>>, <<"1", "0", ".", "5">>, <<"2">>),
         CsvRow(<<>>, <<>>, <<"5">>, <<"1">>),
         CsvRow(NameCd, <<"s", "2">>, <<"a", "b", "c">>, <<"1">>),
         CsvRow(Nameab, <<>>, <<"7">>, <<"3">>) >>,
      << CsvRow(NameCd, <<>>, <<"2", "0">>, <<"4">>) >> }
BulkFiles ==
    { << CsvRow(NameAb, <<>>, <<"1", "2">>, <<>>),
         CsvRow(<<>>, <<>>, <<"9">>, <<>>),
         CsvRow(NameCd, <<>>, <<>>, <<"2", ".", "5">>) >> }

\* the rows at which a write to the store can fail: those that are written
Written(file) == {i \in 1 .. Len(file) : resolved_name(file[i]) # <<>>}

\* import_products_ui: import_products_csv, then self.products =
\* load_products_from_db() and reload_products().  fail_at = 0: every write
\* succeeds.  Otherwise save_product_to_db raises at row fail_at, the rows
\* before it are committed, and the handler shows "Import failed".
import_products_ui(file, fail_at) ==
    /\ fail_at = 0 \/ fail_at \in Written(file)
    /\ products_table' =
          IF fail_at = 0 THEN import_products_csv(file, products_table)
          ELSE import_products_csv(SubSeq(file, 1, fail_at - 1), products_table)
    /\ products' =
          IF fail_at = 0
            THEN reload_products(products_table', load_products_from_db(products_table'))
            ELSE products
    /\ ui_last' = [op |-> IF fail_at = 0 THEN "import" ELSE "import_failed",
                   file |-> file, before |-> products_table, fail_at |-> fail_at]
    /\ UNCHANGED <<catalog_last, csv_file, exported, second_store, notCatalog>>

BulkColumns == {"mrp", "rate", "wholesale", "super_wholesale", "discount", "qty", "category", "brand"}

\* the dict p bulk_edit_products_csv saves for a row r with a name
bulk_product(r, rows) ==
    LET cat == load_products_from_db(rows)
        old == IF lower(r.name) \in DOMAIN cat THEN cat[lower(r.name)]
               ELSE [c \in ColumnSet |-> None]
    IN  [c \in ColumnSet |->
            IF c = "name" THEN Text(r.name)
            ELSE IF c \notin BulkColumns \/ r[c] = <<>> THEN old[c]
            ELSE IF c = "qty"
              THEN (IF float_parses(r[c]) THEN Whole(int_trunc(float_of(r[c]))) ELSE old[c])
            ELSE IF c \in RealColumns
              THEN (IF float_parses(r[c]) THEN Real(float_of(r[c])) ELSE Text(r[c]))
            ELSE Text(r[c])]

RECURSIVE bulk_rows(_, _)
\* the loop of bulk_edit_products_csv over the rows of the file
bulk_rows(file, rows) ==
    IF file = <<>> THEN rows
    ELSE IF file[1].name = <<>> THEN bulk_rows(Tail(file), rows)
    ELSE bulk_rows(Tail(file), save_product_to_db(rows, bulk_product(file[1], rows)))

\* bulk_edit_products_csv: the loop, then reload_products()
bulk_edit_products_csv(file) ==
    /\ products_table' = bulk_rows(file, products_table)
    /\ products' = reload_products(products_table', products)
    /\ ui_last' = Did("bulk")
    /\ UNCHANGED <<catalog_last, csv_file, exported, second_store, notCatalog>>

ProductKeys == {lower(n) : n \in ProductNames}

CatalogUINext ==
    \/ \E p \in Products : open_add_product_dialog(p)
    \/ \E k \in ProductKeys, p \in Products : open_edit_product_dialog(k, p)
    \/ \E k \in ProductKeys : delete_selected_product(k)
    \/ \E f \in ImportFiles : \E k \in 0 .. Len(f) : import_products_ui(f, k)
    \/ \E f \in BulkFiles : bulk_edit_products_csv(f)

SpecCatalogUI == CatalogInit /\ [][CatalogUINext]_vars

----------------------------------------------------------------------------
\* Claims about the Products tab (SpecCatalogUI)

\* C11: after every completed catalog operation of the application (add,
\* edit, delete, import, bulk edit) the in-memory lookup equals
\* load_products_from_db() of the store: same keys, same field values.
C11_LookupEqualsStore ==
    ui_last.op \in {"add", "edit", "delete", "import", "bulk"}
        => CatalogEq(products, load_products_from_db(products_table))

RECURSIVE import_skipping_bad(_, _, _, _)
\* the table an import leaves if it skips exactly the bad rows: rows
\* without a name, rows with a numeric cell that does not parse, and the row
\* whose write fails; n is the number of rows already read
import_skipping_bad(file, rows, fail_at, n) ==
    IF file = <<>> THEN rows
    ELSE LET r == file[1]
             bad == \/ resolved_name(r) = <<>>
                    \/ \E c \in RealColumns \cup {"qty"} : ~cell_parses(r[c])
                    \/ n + 1 = fail_at
         IN  import_skipping_bad(Tail(file),
                 IF bad THEN rows ELSE save_product_to_db(rows, imported_product(r)),
                 fail_at, n + 1)

\* C19: a bad row never aborts an import: rows without a resolvable name,
\* rows with unparsable numeric fields and rows whose write fails are
\* skipped, and every other row of the file is upserted.
C19_ImportSkipsBadRows ==
    ui_last.op \in {"import", "import_failed"}
        => products_table = import_skipping_bad(ui_last.file, ui_last.before, ui_last.fail_at, 0)

----------------------------------------------------------------------------
\* The output dispatcher: refresh_print_bill and print_bill_to_printer

\* how many runs of print_bill_to_printer and how many previews are explored
MaxDispatch == 2
MaxRefresh == 3

\* the lines refresh_print_bill puts in the preview, after the shop's header:
\* the bill number, one line per item, the totals
preview_lines(bill_no) ==
    << <<"Bill No", bill_no>> >>
    \o [i \in 1 .. Len(items_in_bill) |->
          <<"Item", items_in_bill[i].name, items_in_bill[i].mrp, items_in_bill[i].rate,
            items_in_bill[i].discount, items_in_bill[i].qty, items_in_bill[i].total>>]
    \o << <<"SubTotal", sub_total>>,
          <<"GST", gst_amt(sub_total, gst_percent)>>,
          <<"Total", total>>,
          <<"Paid", paid_amount, "Due", total - paid_amount>> >>

\* refresh_print_bill as it would be if it only read the counter
refresh_print_bill_peeks ==
    /\ dispatch_pc = "idle"
    /\ next_no(counter_file) <= MaxRefresh
    /\ bill_preview' = preview_lines(bill_id(next_no(counter_file)))
    /\ UNCHANGED <<dispatch_pc, win32print, printer_var, tmp_pdf, attempts, messages,
                   dispatches, counter_file, pdf_folder, pending_pdf, bill_log, pdf_log,
                   ledgerVars, procVars, catalogVars, archiveVars, objectVars, pageVars>>

\* refresh_print_bill: takes a bill number from get_next_bill_no and fills
\* the preview
refresh_print_bill ==
    /\ dispatch_pc = "idle"
    /\ next_no(counter_file) <= MaxRefresh
    /\ counter_file' = <<str(next_no(counter_file))>>
    /\ bill_preview' = preview_lines(bill_id(next_no(counter_file)))
    /\ UNCHANGED <<dispatch_pc, win32print, printer_var, tmp_pdf, attempts, messages,
                   dispatches, pdf_folder, pending_pdf, bill_log, pdf_log,
                   ledgerVars, procVars, catalogVars, archiveVars, objectVars, pageVars>>

\* the user picks an entry of the printer list
PrinterChoices == {<<>>, <<"P">>}
select_printer(v) ==
    /\ dispatch_pc = "idle"
    /\ printer_var' = v
    /\ UNCHANGED <<dispatch_pc, bill_preview, win32print, tmp_pdf, attempts, messages,
                   dispatches, notDispatch>>

\* how a call into the printing system or the desktop can end
Outcomes == {"ok", "raises", "hangs"}

Attempt(tier, o) == [tier |-> tier, doc |-> tmp_pdf, outcome |-> o]

\* print_bill_to_printer up to the try that renders: "Nothing to print" when
\* the preview is blank, else a new name from tempfile.mktemp
print_bill_to_printer ==
    /\ dispatch_pc = "idle"
    /\ dispatches < MaxDispatch
    /\ dispatches' = dispatches + 1
    /\ attempts' = <<>>
    /\ tmp_pdf' = "none"
    /\ IF bill_preview = <<>>
         THEN messages' = <<"Error">> /\ dispatch_pc' = "done"
         ELSE messages' = <<>> /\ dispatch_pc' = "render"
    /\ UNCHANGED <<bill_preview, win32print, printer_var, notDispatch>>

\* where print_bill_to_printer goes after the rendering try
after_render_delivers(o) == "named"
after_render(o) == IF o = "ok" THEN "named" ELSE "done"

\* the canvas is drawn and saved; an exception shows "PDF Error" and returns
render(o, left) ==
    /\ dispatch_pc = "render"
    /\ o \in {"ok", "raises"}
    /\ tmp_pdf' = IF o = "ok" THEN "complete" ELSE left
    /\ messages' = IF o = "ok" THEN messages ELSE Append(messages, "PDF Error")
    /\ dispatch_pc' = after_render(o)
    /\ UNCHANGED <<bill_preview, win32print, printer_var, attempts, dispatches, notDispatch>>

\* where print_bill_to_printer goes after the named printer was tried
after_named_goes_on(o) == IF o = "hangs" THEN "blocked" ELSE "default"
after_named(o) ==
    IF o = "ok" THEN "done" ELSE IF o = "raises" THEN "default" ELSE "blocked"

\* if win32print and selected: ShellExecute to the named printer
deliver_named(o) ==
    /\ dispatch_pc = "named"
    /\ IF win32print /\ printer_var # <<>>
         THEN /\ attempts' = Append(attempts, Attempt("named", o))
              /\ messages' = IF o = "ok" THEN Append(messages, "Printed")
                             ELSE IF o = "raises" THEN Append(messages, "Print Error")
                             ELSE messages
              /\ dispatch_pc' = after_named(o)
         ELSE /\ o = "ok"
              /\ dispatch_pc' = "default"
              /\ UNCHANGED <<attempts, messages>>
    /\ UNCHANGED <<bill_preview, win32print, printer_var, tmp_pdf, dispatches, notDispatch>>

\* where print_bill_to_printer goes after the default printer was tried
after_default_gives_up(o) == IF o = "hangs" THEN "blocked" ELSE "done"
after_default(o) ==
    IF o = "ok" THEN "done" ELSE IF o = "raises" THEN "startfile" ELSE "blocked"

\* if win32print: GetDefaultPrinter and ShellExecute
deliver_default(o) ==
    /\ dispatch_pc = "default"
    /\ IF win32print
         THEN /\ attempts' = Append(attempts, Attempt("default", o))
              /\ messages' = IF o = "ok" THEN Append(messages, "Printed") ELSE messages
              /\ dispatch_pc' = after_default(o)
         ELSE /\ o = "ok"
              /\ dispatch_pc' = "manual"
              /\ UNCHANGED <<attempts, messages>>
    /\ UNCHANGED <<bill_preview, win32print, printer_var, tmp_pdf, dispatches, notDispatch>>

\* the except branch of the default printer: os.startfile(tmp_pdf), which
\* returns once the file is handed to the shell
startfile(o) ==
    /\ dispatch_pc = "startfile"
    /\ o \in {"ok", "raises"}
    /\ attempts' = Append(attempts, Attempt("manual", o))
    /\ messages' = Append(messages, IF o = "ok" THEN "PDF Ready" ELSE "PDF Saved")
    /\ dispatch_pc' = "done"
    /\ UNCHANGED <<bill_preview, win32print, printer_var, tmp_pdf, dispatches, notDispatch>>

\* without win32print: open / os.startfile / xdg-open, os.system waiting for
\* the command to end
manual_open(o) ==
    /\ dispatch_pc = "manual"
    /\ attempts' = Append(attempts, Attempt("manual", o))
    /\ messages' = IF o = "ok" THEN Append(messages, "PDF Ready")
                   ELSE IF o = "raises" THEN Append(messages, "PDF Saved")
                   ELSE messages
    /\ dispatch_pc' = IF o = "hangs" THEN "blocked" ELSE "done"
    /\ UNCHANGED <<bill_preview, win32print, printer_var, tmp_pdf, dispatches, notDispatch>>

\* print_bill_to_printer has returned and the button can be pressed again
dispatch_returned ==
    /\ dispatch_pc = "done"
    /\ dispatch_pc' = "idle"
    /\ UNCHANGED <<bill_preview, win32print, printer_var, tmp_pdf, attempts, messages,
                   dispatches, notDispatch>>

DispatchInit ==
    /\ LedgerIdle
    /\ NumberingIdle
    /\ ProcsIdle
    /\ CatalogIdle
    /\ ArchiveIdle
    /\ ObjectsIdle
    /\ PagesIdle
    /\ dispatch_pc = "idle"
    /\ bill_preview = <<>>
    /\ win32print \in BOOLEAN
    /\ printer_var \in PrinterChoices
    /\ tmp_pdf = "none"
    /\ attempts = <<>>
    /\ messages = <<>>
    /\ dispatches = 0

\* the steps of a run of print_bill_to_printer once it has started
DispatchSteps ==
    \/ \E o \in Outcomes, left \in {"none", "partial"} : render(o, left)
    \/ \E o \in Outcomes : deliver_named(o)
    \/ \E o \in Outcomes : deliver_default(o)
    \/ \E o \in Outcomes : startfile(o)
    \/ \E o \in Outcomes : manual_open(o)
    \/ dispatch_returned

DispatchNext ==
    \/ refresh_print_bill
    \/ \E v \in PrinterChoices : select_printer(v)
    \/ print_bill_to_printer
    \/ DispatchSteps

SpecDispatch == DispatchInit /\ [][DispatchNext]_vars

\* a run that has started keeps running as long as one of its steps can be taken
SpecDispatchFair == DispatchInit /\ [][DispatchNext]_vars /\ WF_vars(DispatchSteps)

----------------------------------------------------------------------------
\* Claims about the output dispatcher (SpecDispatch, SpecDispatchFair)

Failed(tier) == \E i \in 1 .. Len(attempts) : attempts[i].tier = tier /\ attempts[i].outcome = "raises"
Tried(tier) == \E i \in 1 .. Len(attempts) : attempts[i].tier = tier
LastMessage == IF messages = <<>> THEN "" ELSE messages[Len(messages)]

\* C12: when the named printer fails and the default printer fails, the
\* manual-open tier is tried and what is reported is the outcome of that
\* tier; no run that rendered its document ends by reporting an error.
C12_FallsThroughToManualOpen ==
    dispatch_pc = "done" =>
        /\ (Failed("named") /\ Failed("default")) =>
              /\ Tried("manual")
              /\ LastMessage = IF attempts[Len(attempts)].outcome = "ok"
                                 THEN "PDF Ready" ELSE "PDF Saved"
        /\ tmp_pdf = "complete" => LastMessage \in {"Printed", "PDF Ready", "PDF Saved"}

\* C12 witness: the named and the default printer both failed and the run
\* ended with the document opened for manual printing.
C12_Witness ==
    /\ dispatch_pc = "done"
    /\ Len(attempts) = 3
    /\ Failed("named") /\ Failed("default")
    /\ attempts[3] = [tier |-> "manual", doc |-> "complete", outcome |-> "ok"]
    /\ messages = <<"Print Error", "PDF Ready">>

\* C13: the document is completely written before the first delivery
\* attempt and is still there when the run returns, whatever tiers failed;
\* when rendering fails no tier is attempted.
C13_DocumentExistsBeforeDelivery ==
    /\ \A i \in 1 .. Len(attempts) : attempts[i].doc = "complete"
    /\ dispatch_pc \in {"named", "default", "startfile", "manual", "blocked"} => tmp_pdf = "complete"
    /\ (dispatch_pc = "done" /\ attempts # <<>>) => tmp_pdf = "complete"
    /\ (\E i \in 1 .. Len(messages) : messages[i] = "PDF Error") =>
          attempts = <<>> /\ dispatch_pc \in {"done", "idle"}

\* C13 witness: a run whose three tiers all failed has returned and the
\* document is on disk.
C13_Witness ==
    /\ dispatch_pc = "done"
    /\ Len(attempts) = 3
    /\ \A i \in 1 .. 3 : attempts[i].outcome = "raises"
    /\ tmp_pdf = "complete"

\* C14: every run of the dispatcher that started returns, even when a call
\* to a printer never completes.
C14_DispatchReturns ==
    (dispatch_pc = "render") ~> (dispatch_pc = "done")

----------------------------------------------------------------------------
\* Validation of the item forms (SpecValidation): the ledger's handlers with
\* entries that hold negative numbers

ValidationNext ==
    \/ \E i \in 0 .. MaxItems - 1 : select_row(i)
    \/ \E f \in SignedAddForms : add_item(f)
    \/ delete_item
    \/ \E f \in SignedEditForms : edit_selected_item(f)

SpecValidation == Init /\ [][ValidationNext]_vars

\* a numeric entry that does not parse
Unparsable(f) == ~(is_float(f.mrp) /\ is_float(f.rate) /\ is_float(f.disc) /\ is_int(f.qty))
\* a numeric entry that parses and is negative
Negative(f) ==
    /\ ~Unparsable(f)
    /\ float(f.mrp) < 0 \/ float(f.rate) < 0 \/ float(f.disc) < 0 \/ int(f.qty) < 0

InRange(it) ==
    it.mrp >= 0 /\ it.rate >= 0 /\ it.qty >= 0 /\ 0 <= it.discount /\ it.discount <= 10000

\* C15: add_item appends nothing when the name is empty or a numeric entry
\* does not parse or is negative, and an item it appends has mrp, rate and
\* quantity at least 0 and a discount between 0 and 100 %.
C15_AddItemRejectsInvalid ==
    [][ \A f \in SignedAddForms :
          add_item(f) =>
            /\ (f.name = "" \/ Unparsable(f) \/ Negative(f)) => items_in_bill' = items_in_bill
            /\ items_in_bill' # items_in_bill => InRange(items_in_bill'[Len(items_in_bill')]) ]_vars

\* the ledger and the history are as they were
LedgerAndHistoryUnchanged ==
    UNCHANGED <<items_in_bill, sub_total, total, gst_label, due_label, stack, index>>

\* C16: add_item with an invalid form, edit_selected_item with invalid
\* numeric answers and delete_item with an index out of bounds change
\* neither the items, the totals nor the history stack and its cursor.
C16_RejectedLeavesStateUnchanged ==
    [][ /\ \A f \in SignedAddForms :
             (add_item(f) /\ (f.name = "" \/ Unparsable(f) \/ Negative(f)))
                => LedgerAndHistoryUnchanged
        /\ \A f \in SignedEditForms :
             (/\ edit_selected_item(f)
              /\ selection # <<>>
              /\ f.name # "<cancel>"
              /\ Unparsable(f) \/ Negative(f))
                => LedgerAndHistoryUnchanged
        /\ (/\ delete_item
            /\ selection # <<>>
            /\ ~(0 <= selection[1] /\ selection[1] < Len(items_in_bill)))
                => LedgerAndHistoryUnchanged ]_vars

----------------------------------------------------------------------------
\* Claims about the Paid and GST entries (Spec)

\* C17: after the paid amount or the GST percent was set, the GST amount,
\* the total and the due shown are those recomputed from the current items,
\* the current GST percent and the current paid amount, and the history has
\* no new entry.
C17_ScalarEditsRecompute ==
    [][ ((\E v \in PaidValues : set_paid(v)) \/ (\E v \in GstValues : set_gst_percent(v)))
          => /\ gst_label' = gst_amt(SumTotals(items_in_bill'), gst_percent')
             /\ total' = SumTotals(items_in_bill') + gst_amt(SumTotals(items_in_bill'), gst_percent')
             /\ due_label' = total' - paid_amount'
             /\ UNCHANGED <<stack, index>> ]_vars

----------------------------------------------------------------------------
\* Finalize: print_and_save_pdf and save_bill_to_db

\* how many bills are finalized
MaxFinalize == 2

\* the row save_bill_to_db inserts into bills, with its rows of bill_items
bill_row(bill_no) ==
    [bill_no |-> bill_no, customer |-> cust_name, phone |-> cust_phone,
     subtotal |-> sub_total, gst |-> gst_amt(sub_total, gst_percent), total |-> total,
     paid |-> paid_amount, due |-> total - paid_amount, items |-> items_in_bill]

\* how save_bill_to_db can end: it returns, sqlite3.connect raises, or an
\* INSERT raises after get_next_bill_no was called
DbOutcomes == {"ok", "connect_raises", "insert_raises"}

Call(n) == [kind |-> "call", no |-> n, id |-> bill_id(n)]

\* print_and_save_pdf: get_next_bill_no, get_next_pdf_filename, the PDF, then
\* save_bill_to_db, which calls get_next_bill_no again
print_and_save_pdf(pdf_ok, db) ==
    LET n1 == next_no(counter_file)
        n2 == n1 + 1
        pdf_path == next_pdf_filename(pdf_folder)
        db_called == pdf_ok /\ db # "connect_raises"
    IN  /\ Len(bills_table) < MaxFinalize /\ Len(bill_log) < 2 * MaxFinalize
        /\ counter_file' = <<str(IF db_called THEN n2 ELSE n1)>>
        /\ bill_log' = bill_log \o (IF db_called THEN <<Call(n1), Call(n2)>> ELSE <<Call(n1)>>)
        /\ pdf_log' = Append(pdf_log, pdf_path)
        /\ pdf_folder' = IF pdf_ok THEN pdf_folder \cup {pdf_path} ELSE pdf_folder
        /\ bills_table' = IF pdf_ok /\ db = "ok"
                            THEN Append(bills_table, bill_row(bill_id(n2)))
                            ELSE bills_table
        /\ finalize_last' = <<[ok |-> pdf_ok /\ db = "ok",
                               pdf |-> IF pdf_ok THEN <<pdf_path>> ELSE <<>>,
                               printed_no |-> bill_id(n1),
                               printed_sub |-> sub_total,
                               printed_gst |-> gst_amt(sub_total, gst_percent),
                               printed_total |-> total,
                               message |-> IF pdf_ok THEN "PDF Saved" ELSE "PDF Error"]>>
        /\ UNCHANGED <<pending_pdf, ledgerVars, procVars, catalogVars, dispatchVars,
                       objectVars, pageVars>>

FinalizeInit ==
    /\ LedgerInit
    /\ NumberingIdle
    /\ ProcsIdle
    /\ CatalogIdle
    /\ RestIdle

FinalizeNext ==
    \/ \E f \in AddForms : add_item(f)
    \/ \E c \in Customers : set_customer(c)
    \/ \E v \in PaidValues : set_paid(v)
    \/ clear_all
    \/ \E pdf_ok \in BOOLEAN, db \in DbOutcomes : print_and_save_pdf(pdf_ok, db)

SpecFinalize == FinalizeInit /\ [][FinalizeNext]_vars

\* C18: a print_and_save_pdf that wrote the PDF and stored the bill leaves
\* the ledger empty: no items, the customer entries at their defaults.
C18_FinalizeResetsLedger ==
    [][ print_and_save_pdf(TRUE, "ok")
          => /\ items_in_bill' = <<>>
             /\ cust_name' = "Customer"
             /\ cust_phone' = "" ]_vars

----------------------------------------------------------------------------
\* The worked example of the totals (Spec)

\* items [{rate 100, qty 2, disc 0}, {rate 50, qty 1, disc 10}]
IsExampleBill(its) ==
    /\ Len(its) = 2
    /\ its[1].rate = 10000 /\ its[1].qty = 2 /\ its[1].discount = 0
    /\ its[2].rate = 5000 /\ its[2].qty = 1 /\ its[2].discount = 1000

\* C20: the line total of an item is rate x quantity x (1 - discount/100)
\* rounded to 2 decimals and the GST amount is sub-total x GST percent / 100
\* rounded to 2 decimals; the bill of items {rate 100, qty 2, disc 0} and
\* {rate 50, qty 1, disc 10} at 18 % GST has sub-total 245.00, GST 44.10 and
\* total 289.10.
C20_WorkedExample ==
    [][ ((\E f \in AddForms : add_item(f)) /\ items_in_bill' # items_in_bill)
          => /\ \A i \in 1 .. Len(items_in_bill') :
                  items_in_bill'[i].total =
                      RoundDiv(items_in_bill'[i].rate * items_in_bill'[i].qty
                                 * (10000 - items_in_bill'[i].discount), 10000)
             /\ gst_label' = RoundDiv(sub_total' * gst_percent', 10000)
             /\ (IsExampleBill(items_in_bill') /\ gst_percent' = 1800)
                  => sub_total' = 24500 /\ gst_label' = 4410 /\ total' = 28910 ]_vars

\* C20 witness: the two items of the example were added at 18 % and the
\* ledger shows 245.00, 44.10 and 289.10.
C20_Witness ==
    /\ last.op = "bill"
    /\ IsExampleBill(items_in_bill)
    /\ items_in_bill[1].total = 20000 /\ items_in_bill[2].total = 4500
    /\ gst_percent = 1800
    /\ sub_total = 24500 /\ gst_label = 4410 /\ total = 28910

----------------------------------------------------------------------------
\* Claims about the snapshots the handlers push (Spec)

\* the snapshot _snapshot() would return in the state after the step
SnapshotAfter ==
    snapshot(items_in_bill', cust_name', cust_phone', paid_amount', gst_percent')

\* C21: each add, delete, edit, duplicate, move and clear that goes through
\* pushes exactly one snapshot, and that snapshot is the ledger as the
\* operation left it; moving the first item up or the last item down
\* changes nothing and pushes nothing.
C21_OneSnapshotPerMutation ==
    [][ /\ (Next /\ last'.op = "bill")
            => /\ stack' = Append(stack, SnapshotAfter)
               /\ index' = index + 1
        /\ ((move_item_up /\ selection = <<0>>)
              \/ (move_item_down /\ selection = <<Len(items_in_bill) - 1>>))
            => UNCHANGED <<items_in_bill, stack, index>> ]_vars

\* C24: after clear_all the ledger has no items and the default customer
\* fields, and the entry clear_all pushed records that state: no items, the
\* name "Customer" and an empty phone.
C24_ClearSnapshotIsCleared ==
    [][ clear_all
          => /\ items_in_bill' = <<>>
             /\ cust_name' = "Customer" /\ cust_phone' = ""
             /\ stack'[index' + 1].items = <<>>
             /\ stack'[index' + 1].cust_name = "Customer"
             /\ stack'[index' + 1].cust_phone = "" ]_vars

----------------------------------------------------------------------------
\* The UndoRedoStack class on its own: any list and cursor that push, undo
\* and redo can produce, then more of push, undo and redo.

MaxOps == 3
MaxInitLen == 2

\* entries that can be told apart
Entry(n) == snapshot(<<>>, "Customer", "", n, DEFAULT_GST_PERCENT)

\* short lists and lists at or just under maxlen
InitialStacks ==
    {[i \in 1 .. L |-> Entry(i)] :
        L \in (0 .. MaxInitLen) \cup ((maxlen - MaxInitLen) .. maxlen)}

\* the cursor is -1 on the empty list of __init__ and on an entry otherwise
InitialIndexes(stk) ==
    IF stk = <<>> THEN {-1}
    ELSE {i \in 0 .. Len(stk) - 1 : i <= 1 \/ i >= Len(stk) - 2}

PushedEntries == {Entry(maxlen + k) : k \in 1 .. 2}

StackInit ==
    /\ LedgerInit!1 /\ LedgerInit!2 /\ LedgerInit!3 /\ LedgerInit!4 /\ LedgerInit!5
    /\ LedgerInit!6 /\ LedgerInit!7 /\ LedgerInit!8 /\ LedgerInit!9 /\ LedgerInit!10
    /\ stack \in InitialStacks
    /\ index \in InitialIndexes(stack)
    /\ last = Ran("other")
    /\ edits = 0
    /\ NumberingIdle /\ ProcsIdle /\ CatalogIdle /\ RestIdle

StackFrame ==
    UNCHANGED <<items_in_bill, sub_total, total, gst_label, due_label, gst_percent,
                paid_amount, cust_name, cust_phone, selection, notLedger>>

\* what the call found: last.pre is <<list, cursor>> on entry, last.at_undo is
\* <<value returned>> (<<>> for None)
Called(op, ret) == [op |-> op, pre |-> <<stack, index>>, at_undo |-> ret]

\* UndoRedoStack.push(snapshot)
UndoRedoStack_push(s) ==
    /\ edits < MaxOps
    /\ stack' = push(stack, index, s)[1]
    /\ index' = push(stack, index, s)[2]
    /\ last' = Called("push", <<>>)
    /\ edits' = edits + 1
    /\ StackFrame

\* UndoRedoStack.undo()
UndoRedoStack_undo ==
    /\ edits < MaxOps
    /\ stack' = undo(stack, index)[1]
    /\ index' = undo(stack, index)[2]
    /\ last' = Called("undo", undo(stack, index)[3])
    /\ edits' = edits + 1
    /\ StackFrame

\* UndoRedoStack.redo()
UndoRedoStack_redo ==
    /\ edits < MaxOps
    /\ stack' = redo(stack, index)[1]
    /\ index' = redo(stack, index)[2]
    /\ last' = Called("redo", redo(stack, index)[3])
    /\ edits' = edits + 1
    /\ StackFrame

StackNext ==
    \/ \E s \in PushedEntries : UndoRedoStack_push(s)
    \/ UndoRedoStack_undo
    \/ UndoRedoStack_redo

SpecStack == StackInit /\ [][StackNext]_vars

\* C22: push drops the entries after the cursor, appends the new entry,
\* drops the oldest entry when the list would be longer than maxlen, and
\* leaves the cursor on the new entry; the list is never longer than maxlen
\* and there is nothing to redo right after a push.
C22_PushTruncatesAppendsEvicts ==
    [][ \A s \in PushedEntries : UndoRedoStack_push(s) =>
          LET keep == index + 1
              evicted == IF keep + 1 > maxlen THEN 1 ELSE 0
          IN  /\ Len(stack') = keep + 1 - evicted
              /\ \A i \in 1 .. Len(stack') - 1 : stack'[i] = stack[i + evicted]
              /\ stack'[Len(stack')] = s
              /\ index' = Len(stack') - 1
              /\ Len(stack') <= maxlen
              /\ ~can_redo(stack', index') ]_vars

\* a push on a full list with the cursor on its last entry dropped the oldest
C22_Witness ==
    /\ last.op = "push"
    /\ Len(last.pre[1]) = maxlen /\ last.pre[2] = maxlen - 1
    /\ Len(stack) = maxlen
    /\ stack[1] = last.pre[1][2]
    /\ index = maxlen - 1

----------------------------------------------------------------------------
\* The item dicts as objects.  items_in_bill is a list of references to
\* dicts; list(self.items_in_bill) in _snapshot copies the references, and
\* json.dumps in push writes the values the dicts have at that moment.

Deref(ds, ids) == [k \in 1 .. Len(ids) |-> ds[ids[k]]]

\* push as it would be if it kept the snapshot itself, with its references
dumps_by_reference(ds, snap) == [refs |-> snap]

\* json.dumps(snapshot, default=str): a text with the values of the dicts
dumps(ds, snap) == [text |-> [snap EXCEPT !.items = Deref(ds, snap.items)]]

\* json.loads(entry), as undo and redo return it
loads(ds, entry) ==
    IF "text" \in DOMAIN entry THEN entry.text
    ELSE [entry.refs EXCEPT !.items = Deref(ds, entry.refs.items)]

\* self._push_snapshot() with the dicts ds and the list ids
push_snapshot_dicts(ds, ids) ==
    LET snap == snapshot(ids, cust_name, cust_phone, paid_amount, gst_percent)
        p == push(stack, index, dumps(ds, snap))
        seen == [value |-> [snap EXCEPT !.items = Deref(ds, ids)], ids |-> ids]
    IN  /\ stack' = p[1]
        /\ index' = p[2]
        /\ captured' = push(captured, index, seen)[1]

\* what every handler below does once the dicts and the list are ds and ids
mutated_dicts(ds, ids) ==
    /\ dicts' = ds
    /\ item_ids' = ids
    /\ items_in_bill' = Deref(ds, ids)
    /\ push_snapshot_dicts(ds, ids)
    /\ update_totals(Deref(ds, ids))
    /\ selection' = <<>>
    /\ last' = Mutated("bill")
    /\ UNCHANGED <<gst_percent, paid_amount, cust_name, cust_phone, edits>>

returns_early_dicts == returns_early /\ UNCHANGED objectVars

notObjects == <<numberingVars, procVars, catalogVars, dispatchVars, archiveVars, pageVars>>

MaxSnapshots == 3
CanPushDicts == Len(stack) <= MaxSnapshots

\* add_item: a new dict is appended
add_item_dict(f) ==
    /\ UNCHANGED notObjects
    /\ CanPushDicts /\ CanGrow
    /\ IF ~(is_float(f.mrp) /\ is_float(f.rate) /\ is_float(f.disc) /\ is_int(f.qty))
          THEN returns_early_dicts
       ELSE IF f.name = ""
          THEN returns_early_dicts
       ELSE LET ds == Append(dicts, item(f.name, float(f.mrp), float(f.rate),
                                         float(f.disc), int(f.qty)))
            IN  mutated_dicts(ds, Append(item_ids, Len(ds)))

\* delete_item: the reference is taken out of the list
delete_item_dict ==
    /\ UNCHANGED notObjects
    /\ CanPushDicts
    /\ IF selection = <<>>
          THEN returns_early_dicts
       ELSE LET idx == selection[1]
            IN  mutated_dicts(dicts, IF 0 <= idx /\ idx < Len(item_ids)
                                       THEN RemoveAt(item_ids, idx) ELSE item_ids)

\* duplicate_selected_item: item.copy() is a new dict
duplicate_selected_item_dict ==
    /\ UNCHANGED notObjects
    /\ CanPushDicts /\ CanGrow
    /\ IF selection = <<>>
          THEN returns_early_dicts
       ELSE IF ~(0 <= selection[1] /\ selection[1] < Len(item_ids))
          THEN returns_early_dicts
       ELSE LET idx == selection[1]
                ds == Append(dicts, dicts[item_ids[idx + 1]])
            IN  mutated_dicts(ds, InsertAfter(item_ids, idx, Len(ds)))

\* edit_selected_item: item.update(...) changes the dict in place
edit_selected_item_dict(f) ==
    /\ UNCHANGED notObjects
    /\ CanPushDicts
    /\ IF selection = <<>>
          THEN returns_early_dicts
       ELSE IF ~(0 <= selection[1] /\ selection[1] < Len(item_ids))
          THEN returns_early_dicts
       ELSE IF f.name = "<cancel>"
          THEN returns_early_dicts
       ELSE IF ~(is_float(f.mrp) /\ is_float(f.rate) /\ is_float(f.disc) /\ is_int(f.qty))
          THEN returns_early_dicts
       ELSE LET id == item_ids[selection[1] + 1]
                old == dicts[id]
                new == item(f.name, edit_float(f.mrp, old.mrp), edit_float(f.rate, old.rate),
                            edit_float(f.disc, old.discount), edit_int(f.qty, old.qty))
            IN  mutated_dicts([dicts EXCEPT ![id] = new], item_ids)

\* BillingApp.__init__ with the first snapshot pushed
ObjectsInit ==
    /\ LedgerInit!1 /\ LedgerInit!2 /\ LedgerInit!3 /\ LedgerInit!4 /\ LedgerInit!5
    /\ LedgerInit!6 /\ LedgerInit!7 /\ LedgerInit!8 /\ LedgerInit!9 /\ LedgerInit!10
    /\ dicts = <<>>
    /\ item_ids = <<>>
    /\ stack = <<dumps(<<>>, snapshot(<<>>, "Customer", "", 0, DEFAULT_GST_PERCENT))>>
    /\ captured = <<[value |-> snapshot(<<>>, "Customer", "", 0, DEFAULT_GST_PERCENT),
                     ids |-> <<>>]>>
    /\ index = 0
    /\ last = Ran("other")
    /\ edits = 0
    /\ NumberingIdle /\ ProcsIdle /\ CatalogIdle /\ DispatchIdle /\ ArchiveIdle
    /\ PagesIdle

ObjectsNext ==
    \/ \E i \in 0 .. MaxItems : select_row(i)
    \/ \E f \in AddForms : add_item_dict(f)
    \/ delete_item_dict
    \/ duplicate_selected_item_dict
    \/ \E f \in EditForms : edit_selected_item_dict(f)
    \/ \E v \in PaidValues : set_paid(v)
    \/ \E c \in Customers : set_customer(c)

SpecObjects == ObjectsInit /\ [][ObjectsNext]_vars

\* C23: an entry of the history never changes after it is pushed: whatever
\* is done to the live ledger afterwards, an edit of an item in place
\* included, every stored entry still reads as the state it captured.
C23_EntriesNeverChange ==
    \A i \in 1 .. Len(stack) : loads(dicts, stack[i]) = captured[i].value

\* a dict that an entry captured was changed in place after the push
C23_Witness ==
    \E i \in 1 .. Len(stack) : \E k \in 1 .. Len(captured[i].ids) :
        dicts[captured[i].ids[k]] # captured[i].value.items[k]

----------------------------------------------------------------------------
\* The order of the delivery tiers (SpecDispatch)

TierRank(tier) == IF tier = "named" THEN 1 ELSE IF tier = "default" THEN 2 ELSE 3

\* C25: the tiers are tried in the order named, default, manual open, and
\* no tier is tried after one succeeded; the named tier only with a printer
\* name that is not empty and not "<No printers found>", the default tier
\* only when the named tier was skipped or failed, the manual tier only
\* when the default tier failed or is not available.  (printer_var is
\* the choice of the run as long as the run has not returned.)
C25_TiersInOrder ==
    \A i \in 1 .. Len(attempts) :
        /\ \A j \in 1 .. i - 1 :
              /\ TierRank(attempts[j].tier) < TierRank(attempts[i].tier)
              /\ attempts[j].outcome = "raises"
        /\ (attempts[i].tier = "named" /\ dispatch_pc # "idle") => printer_var # <<>>
        /\ attempts[i].tier = "default" =>
              \/ i = 1
              \/ attempts[i - 1] = [tier |-> "named", doc |-> "complete", outcome |-> "raises"]
        /\ attempts[i].tier = "manual" =>
              \/ i = 1 /\ ~win32print
              \/ i > 1 /\ attempts[i - 1].tier = "default" /\ attempts[i - 1].outcome = "raises"

\* the named printer failed, the default printer took the document and the
\* run returned without a third attempt
C25_Witness ==
    /\ dispatch_pc = "done"
    /\ Len(attempts) = 2
    /\ attempts[1].tier = "named" /\ attempts[1].outcome = "raises"
    /\ attempts[2].tier = "default" /\ attempts[2].outcome = "ok"

----------------------------------------------------------------------------
\* The bill as it is shown and printed: the ledger handlers that change the
\* items and the GST rate, the preview and the PDF of "Print and save"

\* one bill: it is built, shown any number of times and printed once
PreviewNext ==
    \/ \E f \in AddForms : add_item(f)
    \/ \E v \in GstValues : set_gst_percent(v)
    \/ refresh_print_bill
    \/ \E pdf_ok \in BOOLEAN, db \in DbOutcomes :
          bill_log = <<>> /\ print_and_save_pdf(pdf_ok, db)

SpecPreview == FinalizeInit /\ [][PreviewNext]_vars

\* the numbers of the counter: previews and "Print and save" in any order,
\* for a bill without items
NumbersNext ==
    \/ \E c \in Customers : set_customer(c)
    \/ refresh_print_bill
    \/ \E pdf_ok \in BOOLEAN, db \in DbOutcomes : print_and_save_pdf(pdf_ok, db)

SpecNumbers == FinalizeInit /\ [][NumbersNext]_vars

\* the amounts on the last three amount lines of a preview
PrintedSub(txt) == txt[Len(txt) - 3][2]
PrintedGst(txt) == txt[Len(txt) - 2][2]
PrintedTotal(txt) == txt[Len(txt) - 1][2]

\* C26: whatever the ledger is, a GST rate changed after the last change of
\* the items included, the text receipt and the PDF print the subtotal, the
\* GST and the total of the current items at the current rate, and the
\* printed total is the printed subtotal plus the printed GST.
C26_PrintedTotalsAreLedgerTotals ==
    [][ LET sub == SumTotals(items_in_bill)
            gst == gst_amt(sub, gst_percent)
        IN  /\ refresh_print_bill =>
                /\ PrintedSub(bill_preview') = sub
                /\ PrintedGst(bill_preview') = gst
                /\ PrintedTotal(bill_preview') = sub + gst
                /\ PrintedTotal(bill_preview') =
                      PrintedSub(bill_preview') + PrintedGst(bill_preview')
            /\ (\E pdf_ok \in BOOLEAN, db \in DbOutcomes : print_and_save_pdf(pdf_ok, db)) =>
                /\ finalize_last'[1].printed_sub = sub
                /\ finalize_last'[1].printed_gst = gst
                /\ finalize_last'[1].printed_total = sub + gst ]_vars

\* C28: every refresh_print_bill takes the next number of the bill counter
\* and shows it, without storing a bill, so the number is used up; the
\* numbers of the stored bills are not consecutive.
C28_PreviewConsumesNumbers ==
    [][ /\ refresh_print_bill =>
              /\ next_no(counter_file') = next_no(counter_file) + 1
              /\ bill_preview'[1] = <<"Bill No", bill_id(next_no(counter_file))>>
              /\ UNCHANGED bills_table
              /\ \A i \in 1 .. Len(bills_table) :
                    bills_table[i].bill_no # bill_id(next_no(counter_file))
        /\ \A i \in 1 .. Len(bills_table') : \A n \in 1 .. 4 * MaxFinalize :
              bills_table'[i].bill_no = bill_id(n) =>
                  /\ \A j \in 1 .. i - 1 : bills_table'[j].bill_no # bill_id(n - 1)
                  /\ bill_preview' # <<>> => bill_preview'[1][2] # bill_id(n) ]_vars

\* a preview between two stored bills took the number 3: the stored bills
\* have the numbers 2 and 5
C28_Witness ==
    /\ Len(bills_table) = 2
    /\ bills_table[1].bill_no = bill_id(2)
    /\ bill_preview # <<>> /\ bill_preview[1] = <<"Bill No", bill_id(3)>>
    /\ bills_table[2].bill_no = bill_id(5)

----------------------------------------------------------------------------
\* One number per finalize (SpecFinalize)

\* C29: one print_and_save_pdf that stores its bill takes one bill number:
\* the bill_no of the stored row is the number printed on the PDF and the
\* counter has advanced by exactly one.
C29_OneNumberPerFinalize ==
    [][ ((\E pdf_ok \in BOOLEAN, db \in DbOutcomes : print_and_save_pdf(pdf_ok, db))
           /\ finalize_last'[1].ok)
          => /\ bills_table'[Len(bills_table')].bill_no = finalize_last'[1].printed_no
             /\ next_no(counter_file') = next_no(counter_file) + 1 ]_vars

----------------------------------------------------------------------------
\* The pages of print_bill_to_printer.  Lengths on the page are in
\* hundredths of a point; a line of the text is its number of characters.

height == 84189          \* A4 is 595.28 x 841.89 points
margin == 4000
line_height == 1200
piece_width == 110

\* y when the shop name, the address, the phone and the rule are drawn
y_after_header == height - margin - 1800 - 1400 - 2000 - 1600

\* int((y - margin) / line_height) or 40
max_lines ==
    LET n == (y_after_header - margin) \div line_height
    IN  IF n = 0 THEN 40 ELSE n

Min(a, b) == IF a < b THEN a ELSE b

drawString(y, line, from, to) ==
    [op |-> "drawString", y |-> y, line |-> line, from |-> from, to |-> to]
showPage == [op |-> "showPage"]

\* the four drawString calls above the text (line 0 is the header)
Header ==
    << drawString(height - margin, 0, 0, 0),
       drawString(height - margin - 1800, 0, 0, 0),
       drawString(height - margin - 1800 - 1400, 0, 0, 0),
       drawString(height - margin - 1800 - 1400 - 2000, 0, 0, 0) >>

\* while len(line) > 0: draw line[:110], go down, cut; break when the page
\* is full.  `from` is how much of line idx is cut off already.
RECURSIVE draw_pieces(_, _, _, _, _)
draw_pieces(txt, idx, from, y, out) ==
    IF txt[idx + 1] - from <= 0 THEN [y |-> y, out |-> out]
    ELSE LET drawn == Append(out, drawString(y, idx + 1, from,
                                             Min(from + piece_width, txt[idx + 1])))
             below == y - line_height
         IN  IF below < margin + line_height
               THEN [y |-> below, out |-> drawn]
               ELSE draw_pieces(txt, idx, from + piece_width, below, drawn)

\* for _ in range(max_lines): one line per round, break at the end of the
\* text or when the page is full (idx stays on the line drawn last)
RECURSIVE for_lines(_, _, _, _, _)
for_lines(txt, k, idx, y, out) ==
    IF k = max_lines \/ idx >= Len(txt) THEN [idx |-> idx, y |-> y, out |-> out]
    ELSE LET r == draw_pieces(txt, idx, 0, y, out)
         IN  IF r.y < margin + line_height
               THEN [idx |-> idx, y |-> r.y, out |-> r.out]
               ELSE for_lines(txt, k + 1, idx + 1, r.y, r.out)

\* while idx < len(lines): the for loop, then showPage if text is left
RECURSIVE while_lines(_, _, _, _)
while_lines(txt, idx, y, out) ==
    IF idx >= Len(txt) THEN out
    ELSE LET r == for_lines(txt, 0, idx, y, out)
         IN  IF r.idx < Len(txt)
               THEN while_lines(txt, r.idx, height - margin, Append(r.out, showPage))
               ELSE while_lines(txt, r.idx, r.y, r.out)

MaxOverflow == 2
LineLengths == {0, 60, piece_width, piece_width + 1, 2 * piece_width + 10}

\* texts of lines of 60 characters with one line of another length, about
\* as long as the first page
Texts ==
    {[i \in 1 .. n |-> IF i = p THEN l ELSE 60] :
        n \in (max_lines - 2) .. (max_lines + MaxOverflow),
        p \in {1, max_lines - 1, max_lines, max_lines + 1},
        l \in LineLengths}

PagesInit ==
    /\ LedgerInit /\ NumberingIdle /\ ProcsIdle /\ CatalogIdle
    /\ DispatchIdle /\ ArchiveIdle /\ ObjectsIdle
    /\ lines \in Texts
    /\ canvas = <<>>

\* print_bill_to_printer from canvas.Canvas(...) to c.save()
draw_bill_pages ==
    /\ canvas = <<>>
    /\ canvas' = Append(while_lines(lines, 0, y_after_header, Header), [op |-> "save"])
    /\ UNCHANGED <<lines, ledgerVars, numberingVars, procVars, catalogVars, dispatchVars,
                   archiveVars, objectVars>>

PagesNext == draw_bill_pages

SpecPages == PagesInit /\ [][PagesNext]_vars

\* ---- what the text asks for and what is on the pages ----

\* the pieces of line i (a blank line is one piece without characters)
PiecesOf(i) ==
    IF lines[i] = 0 THEN <<[line |-> i, from |-> 0, to |-> 0]>>
    ELSE [k \in 1 .. ((lines[i] + piece_width - 1) \div piece_width) |->
             [line |-> i, from |-> (k - 1) * piece_width,
              to |-> Min(k * piece_width, lines[i])]]

RECURSIVE PiecesFrom(_)
PiecesFrom(i) == IF i > Len(lines) THEN <<>> ELSE PiecesOf(i) \o PiecesFrom(i + 1)

\* the pieces of the text that were drawn, in the order of the calls
RECURSIVE DrawnPieces(_)
DrawnPieces(ops) ==
    IF ops = <<>> THEN <<>>
    ELSE (IF ops[1].op = "drawString" /\ ops[1].line > 0
            THEN <<[line |-> ops[1].line, from |-> ops[1].from, to |-> ops[1].to]>>
            ELSE <<>>) \o DrawnPieces(Tail(ops))

\* s can be had from t by leaving entries out
RECURSIVE IsSubsequence(_, _)
IsSubsequence(s, t) ==
    IF s = <<>> THEN TRUE
    ELSE IF t = <<>> THEN FALSE
    ELSE IF s[1] = t[1] THEN IsSubsequence(Tail(s), Tail(t))
    ELSE IsSubsequence(s, Tail(t))

\* C27: no line of the text is cut short or left out: every piece of 110
\* characters of every line, and every blank line, is drawn on some page,
\* in the order of the text, and nothing is drawn below the margin because
\* a new page is started when there is no room for another line.
C27_NoLineDropped ==
    canvas # <<>> =>
        /\ IsSubsequence(PiecesFrom(1), DrawnPieces(canvas))
        /\ \A i \in 1 .. Len(canvas) : canvas[i].op = "drawString" => canvas[i].y >= margin

\* C30: every line is drawn once: the line drawn last on a page that is
\* full is not drawn again on top of the next page, and as many pieces are
\* drawn as the text has pieces that are not empty.
C30_EachLineDrawnOnce ==
    canvas # <<>> =>
        /\ \A i \in 2 .. Len(canvas) - 1 :
              canvas[i].op = "showPage" =>
                  ~(/\ canvas[i - 1].op = "drawString" /\ canvas[i + 1].op = "drawString"
                    /\ canvas[i - 1].line = canvas[i + 1].line
                    /\ canvas[i + 1].from = 0)
        /\ Len(DrawnPieces(canvas)) =
              Len(SelectSeq(PiecesFrom(1), LAMBDA pc1 : pc1.to > pc1.from))

====
